---- MODULE Spec2Model ----
(***************************************************************************)
(* clip-stream: the two React hooks that drive the in-browser media engine *)
(*   useFFmpegProcessor     (primary clipping job: load / process / reset) *)
(*   useFFmpegRawProcessor  (raw command job:      load / execute / reset) *)
(* One hook session is modelled per behaviour; `hook` says which one.      *)
(* Every action is one run-to-next-await slice of the JavaScript code: a   *)
(* call of the hook's API, or the continuation of one awaited promise.     *)
(***************************************************************************)
EXTENDS Integers, Sequences, FiniteSets, TLC

VARIABLES
    hook,        \* "primary" | "raw": which hook this session mounts
    env,         \* browser capabilities: hasSharedArrayBuffer, crossOriginIsolated
    state,       \* the hook's React state (ProcessingState / RawProcessorState)
    ffmpegRef,   \* ffmpegRef.current: 0 (null) or an index into engines
    engines,     \* every FFmpeg instance constructed so far
    loads,       \* activations of load(): one record per call that passed the guard
    jobs,        \* activations of process() / execute() that passed the guards
    loadCalls,   \* number of load() calls made so far
    nResets,     \* number of reset() calls made so far
    page,        \* the command page: its config and what synthesis made of it
    devtools     \* the browser's developer tools: closed, or the events they recorded

vars ==
    <<hook, env, state, ffmpegRef, engines, loads, jobs, loadCalls, nResets, page, devtools>>

----------------------------------------------------------------------------
(* Bounds of the model *)

MaxLoadCalls == 3     \* load() calls made by an arbitrary caller of the hook
MaxLoads == 2         \* of which this many may pass the ready-check
MaxJobs == 1          \* jobs started in a session that studies one job
MaxSegments == 3      \* segments in a config handed to synthesis
MaxJobsOverlap == 2   \* jobs started in a session that studies successive jobs
MaxEntries == 205     \* addLog calls in a session that studies the log stream
MaxPieces == 5        \* pieces of a command string handed to parseCommand
MaxHeld == 2          \* segments the editor holds in a session that studies the bulk editor

(* Program constants *)

LogCapPrimary == 100
LogCapRaw == 200
MinOutputPrimary == 1000
MinOutputRaw == 100
MAX_FILE_SIZE == 524288000

NoUrl == 0
NoError == "null"

\* The command page before any config was entered.
NoPage == [shown |-> FALSE]

\* Developer tools that are closed record nothing.
DevtoolsClosed == [open |-> FALSE]

----------------------------------------------------------------------------
(* Hook state *)

InitialState ==
    [ isLoading |-> FALSE, loadProgress |-> 0, loadPhase |-> "idle",
      isMultiThreaded |-> FALSE, isProcessing |-> FALSE, progress |-> 0,
      error |-> NoError, outputUrl |-> NoUrl, outputType |-> "null",
      logs |-> << >> ]

LogCap == IF hook = "primary" THEN LogCapPrimary ELSE LogCapRaw

\* logs: [...s.logs.slice(-(cap-1)), entry]
Slice(logs, keep) ==
    IF Len(logs) <= keep THEN logs
    ELSE SubSeq(logs, Len(logs) - keep + 1, Len(logs))

\* Mutant of addLog: the slice keeps one entry too many.
addLogSlicedLate(s, msg) == [s EXCEPT !.logs = Append(Slice(s.logs, LogCap), msg)]

addLog(s, msg) == [s EXCEPT !.logs = Append(Slice(s.logs, LogCap - 1), msg)]

RECURSIVE addLogs(_, _)
addLogs(s, msgs) ==
    IF msgs = << >> THEN s ELSE addLogs(addLog(s, Head(msgs)), Tail(msgs))

clearLogs(s) == [s EXCEPT !.logs = << >>]

\* const entry: LogEntry = { timestamp: new Date(), type, message }
LogEntry(timestamp, type, message) ==
    [timestamp |-> timestamp, type |-> type, message |-> message]

LogFrame == UNCHANGED <<hook, env, page, ffmpegRef, engines, loads, jobs, loadCalls, nResets>>

\* addLog(type, message), called by the hook or by an engine log/progress
\* event. The observer keeps the time and every entry appended since the log
\* was last cleared.
AddLog ==
    /\ devtools.clock < MaxEntries
    /\ LET entry == LogEntry(devtools.clock + 1, "info", "message")
       IN  /\ state' = addLog(state, entry)
           /\ devtools' = [devtools EXCEPT !.clock = @ + 1,
                                           !.entries = Append(@, entry)]
    /\ LogFrame

\* The head of a job: process() calls clearLogs() and then
\* addLog("info", "Processing N segment(s)..."); execute() only clearLogs().
ClearLogsForJob ==
    /\ devtools.clock < MaxEntries
    /\ devtools.entries # << >>
    /\ LET entry == LogEntry(devtools.clock + 1, "info", "Processing segment(s)...")
       IN  IF hook = "primary"
           THEN /\ state' = addLog(clearLogs(state), entry)
                /\ devtools' = [devtools EXCEPT !.clock = @ + 1, !.entries = << entry >>]
           ELSE /\ state' = clearLogs(state)
                /\ devtools' = [devtools EXCEPT !.clock = @ + 1, !.entries = << >>]
    /\ LogFrame

supportsMultiThreading == env.hasSharedArrayBuffer /\ env.crossOriginIsolated

Loaded(ref) == ref # 0 /\ engines[ref].loaded

NewEngine == [loaded |-> FALSE, files |-> {}, listeners |-> 0]

----------------------------------------------------------------------------
(* load() *)

\* The log lines load() writes before its first setState.
LoadEntryLogs ==
    IF hook = "primary"
    THEN <<"Multi-threading">>
         \o (IF supportsMultiThreading THEN << >> ELSE <<"warn: single-threaded mode">>)
         \o (IF env.crossOriginIsolated THEN << >> ELSE <<"warn: not cross-origin isolated">>)
    ELSE <<"Multi-threading">>

\* load() up to its first await (the core fetch).
LoadStart(maxLoads) ==
    LET mt == supportsMultiThreading
        s1 == addLogs(state, LoadEntryLogs)
        s2 == [s1 EXCEPT !.isLoading = TRUE, !.loadProgress = 0, !.loadPhase = "core",
                         !.isMultiThreaded = mt, !.error = NoError]
        s3 == IF hook = "primary" THEN addLog(s2, "Loading FFmpeg core...") ELSE s2
        s4 == [s3 EXCEPT !.loadProgress = 10, !.loadPhase = "core"]
    IN  /\ Len(loads) < maxLoads
        /\ state' = s4
        /\ engines' = Append(engines, NewEngine)
        /\ ffmpegRef' = Len(engines) + 1
        /\ loads' = Append(loads, [pc |-> "core", inst |-> Len(engines) + 1, mt |-> mt])
        /\ UNCHANGED <<jobs, nResets>>

\* Mutant of LoadNoop: the entry log lines are written before the ready-check.
LoadNoopLogged ==
    /\ state' = addLogs(state, LoadEntryLogs)
    /\ UNCHANGED <<ffmpegRef, engines, loads, jobs, nResets>>

\* if (ffmpegRef.current?.loaded) return;
LoadNoop == UNCHANGED <<state, ffmpegRef, engines, loads, jobs, nResets>>

LoadCall(maxCalls, maxLoads) ==
    /\ loadCalls < maxCalls
    /\ loadCalls' = loadCalls + 1
    /\ UNCHANGED <<hook, env, page, devtools>>
    /\ IF Loaded(ffmpegRef) THEN LoadNoop ELSE LoadStart(maxLoads)

\* load() called by an arbitrary caller of the hook
Load == LoadCall(MaxLoadCalls, MaxLoads)

\* The component that mounts the hook: useEffect(() => { load(); }, [load]),
\* whose dependency never changes, so that it runs once.
MountEffect ==
    /\ loadCalls = 0
    /\ loadCalls' = 1
    /\ UNCHANGED <<hook, env, page, devtools>>
    /\ LoadStart(1)

\* Mutant of LoadCatch: the catch block forgets to leave the loading phase.
LoadCatchKeepsPhase(s, msg) ==
    LET s1 == [s EXCEPT !.isLoading = FALSE, !.error = msg]
    IN  IF hook = "primary" THEN addLog(s1, msg) ELSE s1

\* catch (err) of load(): back to idle with the message; the primary hook also logs it.
LoadCatch(s, msg) ==
    LET s1 == [s EXCEPT !.isLoading = FALSE, !.loadProgress = 0, !.loadPhase = "idle",
                        !.error = msg]
    IN  IF hook = "primary" THEN addLog(s1, msg) ELSE s1

\* verifyAndFetchResource: the outcome of one fetch, as load() sees it.
\*   "ok"       the bytes arrived and match the pinned digest
\*   "mismatch" the bytes arrived and do not match: the primary hook warns on the
\*              console and goes on, the raw hook throws
\*   "fail"     response.ok is false, or fetch rejected
FetchOutcomes == {"ok", "mismatch", "fail"}

\* Mutant of FetchThrows: a digest mismatch never throws.
FetchThrowsOnFailure(outcome) == outcome = "fail"

FetchThrows(outcome) ==
    \/ outcome = "fail"
    \/ outcome = "mismatch" /\ hook = "raw"

FetchError(outcome, key) ==
    IF outcome = "fail" THEN "Failed to fetch " \o key
    ELSE "Security error: integrity check failed for " \o key \o ". Aborting load."

\* What the developer tools record, when open, as a fetch of load i settles:
\* the response with its digest check, and the console.warn of the primary
\* hook's verifyAndFetchResource on a mismatch.
\* The events are kept per activation of load(), in the order they happened.
Event(kind, key, outcome, handles) ==
    [kind |-> kind, key |-> key, outcome |-> outcome, handles |-> handles]

Record(d, i, evs) ==
    IF ~d.open THEN d
    ELSE LET all == d.events \o [k \in 1..(i - Len(d.events)) |-> << >>]
         IN  [d EXCEPT !.events = [all EXCEPT ![i] = @ \o evs]]

\* Mutant of Fetched: verifyAndFetchResource without its console.warn.
FetchedSilently(d, i, key, outcome) ==
    Record(d, i, << Event("fetch", key, outcome, {}) >>)

Fetched(d, i, key, outcome) ==
    Record(d, i, << Event("fetch", key, outcome, {}) >>
                 \o (IF outcome = "mismatch" /\ hook = "primary"
                     THEN << Event("warn", key, "Hash mismatch for " \o key, {}) >>
                     ELSE << >>))

\* ffmpeg.load({coreURL, wasmURL[, workerURL]}) is invoked by load i
Handed(d, i, handles) ==
    Record(d, i, << Event("init", "ffmpeg.load", "", handles) >>)

LoadFailed(i, msg) ==
    /\ state' = LoadCatch(state, msg)
    /\ loads' = [loads EXCEPT ![i].pc = "failed"]
    /\ UNCHANGED engines

\* the core fetch resolves
LoadCore(i) ==
    /\ loads[i].pc = "core"
    /\ UNCHANGED <<hook, env, page, ffmpegRef, jobs, loadCalls, nResets>>
    /\ \E outcome \in FetchOutcomes :
         /\ devtools' = Fetched(devtools, i, "ffmpeg-core.js", outcome)
         /\ IF FetchThrows(outcome)
            THEN LoadFailed(i, FetchError(outcome, "ffmpeg-core.js"))
            ELSE LET s1 == IF hook = "primary"
                           THEN addLogs(state, <<"Core loaded successfully",
                                                 "Loading WebAssembly module">>)
                           ELSE state
                 IN  /\ state' = [s1 EXCEPT !.loadProgress = 40, !.loadPhase = "wasm"]
                     /\ loads' = [loads EXCEPT ![i].pc = "wasm"]
                     /\ UNCHANGED engines

\* the wasm fetch resolves
LoadWasm(i) ==
    /\ loads[i].pc = "wasm"
    /\ UNCHANGED <<hook, env, page, ffmpegRef, jobs, loadCalls, nResets>>
    /\ \E outcome \in FetchOutcomes :
         LET d1 == Fetched(devtools, i, "ffmpeg-core.wasm", outcome)
         IN  IF FetchThrows(outcome)
             THEN /\ LoadFailed(i, FetchError(outcome, "ffmpeg-core.wasm"))
                  /\ devtools' = d1
             ELSE LET s1 == IF hook = "primary"
                            THEN addLog(state, "WASM module loaded successfully")
                            ELSE state
                  IN  /\ UNCHANGED engines
                      /\ IF loads[i].mt
                         THEN /\ state' = [(IF hook = "primary"
                                            THEN addLog(s1, "Loading multi-thread worker...")
                                            ELSE s1)
                                           EXCEPT !.loadProgress = 70, !.loadPhase = "worker"]
                              /\ loads' = [loads EXCEPT ![i].pc = "worker"]
                              /\ devtools' = d1
                         ELSE /\ state' = [s1 EXCEPT !.loadProgress = 80]
                              /\ loads' = [loads EXCEPT ![i].pc = "init"]
                              /\ devtools' = Handed(d1, i, {"coreURL", "wasmURL"})

\* the worker fetch resolves (multi-threaded only)
LoadWorker(i) ==
    /\ loads[i].pc = "worker"
    /\ UNCHANGED <<hook, env, page, ffmpegRef, jobs, loadCalls, nResets>>
    /\ \E outcome \in FetchOutcomes :
         LET d1 == Fetched(devtools, i, "ffmpeg-core.worker.js", outcome)
         IN  IF FetchThrows(outcome)
             THEN /\ LoadFailed(i, FetchError(outcome, "ffmpeg-core.worker.js"))
                  /\ devtools' = d1
             ELSE /\ state' = state
                  /\ loads' = [loads EXCEPT ![i].pc = "init"]
                  /\ UNCHANGED engines
                  /\ devtools' = Handed(d1, i, {"coreURL", "wasmURL", "workerURL"})

\* the final setState of a successful load
LoadReady(s) ==
    LET ready(t) == [t EXCEPT !.isLoading = FALSE, !.loadProgress = 100,
                              !.loadPhase = "ready"]
    IN  IF hook = "primary"
        THEN ready(addLog(s, "FFmpeg ready"))
        ELSE addLog(ready(s), "FFmpeg ready")

\* ffmpeg.load({coreURL, wasmURL[, workerURL]}) settles
LoadInit(i) ==
    /\ loads[i].pc = "init"
    /\ UNCHANGED <<hook, env, page, devtools, ffmpegRef, jobs, loadCalls, nResets>>
    /\ \E ok \in BOOLEAN :
         IF ok
         THEN /\ engines' = [engines EXCEPT ![loads[i].inst].loaded = TRUE]
              /\ state' = LoadReady(state)
              /\ loads' = [loads EXCEPT ![i].pc = "done"]
         ELSE LoadFailed(i, "Failed to load FFmpeg")

LoadStep == \E i \in 1..Len(loads) : LoadCore(i) \/ LoadWasm(i) \/ LoadWorker(i) \/ LoadInit(i)

----------------------------------------------------------------------------
(* The engine's virtual filesystem and its operations in flight *)

WriteFile(e, name) == [e EXCEPT !.files = @ \cup {name}]

DeleteFile(e, name) == [e EXCEPT !.files = @ \ {name}]

\* The job's position is the promise it awaits. These await an engine operation
\* (writeFile, exec, readFile, deleteFile); the others await fetchFile.
EnginePcs ==
    {"writeVideo", "probe", "writeAudio", "encode", "delPartial", "read",
     "cleanInput", "cleanAudio", "cleanOutput",
     "writeFile", "exec", "cleanFile"}

----------------------------------------------------------------------------
(* process(config): the primary clipping job *)

Seg(s, e, fi, fo) == [start |-> s, end |-> e, fadeIn |-> fi, fadeOut |-> fo]

\* Segment lists a caller may pass (seconds, as timeToSeconds reads them).
SegLists ==
    { << >>,
      << Seg(1, 3, FALSE, FALSE) >>,
      << Seg(1, 3, TRUE, FALSE), Seg(4, 9, FALSE, FALSE) >>,
      << Seg(1, 3, FALSE, FALSE), Seg(7, 8, FALSE, FALSE) >> }

Configs ==
    [ videoFile : BOOLEAN, audioFile : BOOLEAN, segments : SegLists,
      globalFadeIn : {FALSE}, globalFadeOut : {FALSE} ]

StartBeyondOf(cfg, dur) == \E k \in 1..Len(cfg.segments) : cfg.segments[k].start >= dur

EndBeyondOf(cfg, dur) == \E k \in 1..Len(cfg.segments) : cfg.segments[k].end > dur

\* Segment lists around the edges of the validation, for a 5 s video: a start
\* at the duration, an end at and past it, an inverted and an empty segment
\* (the editor's "Add" button makes 00:00 - 00:00).
EdgeSegLists ==
    { << Seg(1, 3, FALSE, FALSE) >>,
      << Seg(4, 5, FALSE, FALSE) >>,
      << Seg(4, 9, FALSE, FALSE) >>,
      << Seg(5, 6, FALSE, FALSE) >>,
      << Seg(3, 1, FALSE, FALSE) >>,
      << Seg(0, 0, FALSE, FALSE) >>,
      << Seg(1, 3, FALSE, FALSE), Seg(7, 8, FALSE, FALSE) >>,
      << Seg(1, 3, TRUE, FALSE), Seg(3, 1, FALSE, FALSE) >> }

EdgeConfigs ==
    [ videoFile : {TRUE}, audioFile : {FALSE}, segments : EdgeSegLists,
      globalFadeIn : {FALSE}, globalFadeOut : {FALSE} ]

\* What the probe's log lines yield: videoDuration (0 when no "Duration:" line
\* matched) and whether some line mentions an audio stream.
Durations == {0, 5}

\* catch (err) of process()
ProcessCatch(s, msg) ==
    [addLog(s, "error: " \o msg) EXCEPT !.isProcessing = FALSE, !.error = msg]

\* Mutant of Validation: a start beyond the duration is only warned about.
ValidationWarnsOnly(cfg, dur) ==
    [err |-> NoError,
     logs |-> IF dur > 0 /\ (StartBeyondOf(cfg, dur) \/ EndBeyondOf(cfg, dur))
              THEN <<"warn: segment end exceeds video duration">> ELSE << >>]

\* The validation loop over config.segments (only when videoDuration > 0):
\* the first throw ends it; a warning is logged for an end past the duration.
RECURSIVE ValidateSegments(_, _, _)
ValidateSegments(segs, dur, acc) ==
    IF segs = << >> THEN [err |-> NoError, logs |-> acc]
    ELSE LET seg == Head(segs)
             acc2 == IF seg.end > dur
                     THEN Append(acc, "warn: segment end exceeds video duration")
                     ELSE acc
         IN  IF seg.start >= dur
             THEN [err |-> "Segment start time is beyond video duration", logs |-> acc]
             ELSE IF seg.start >= seg.end
                  THEN [err |-> "Invalid segment: start must be before end", logs |-> acc2]
                  ELSE ValidateSegments(Tail(segs), dur, acc2)

Validation(cfg, dur) ==
    IF dur > 0 THEN ValidateSegments(cfg.segments, dur, << >>)
    ELSE [err |-> NoError, logs |-> << >>]

canUseSimpleMode(cfg) ==
    /\ Len(cfg.segments) = 1
    /\ ~cfg.segments[1].fadeIn
    /\ ~cfg.segments[1].fadeOut
    /\ ~cfg.globalFadeIn
    /\ ~cfg.globalFadeOut

\* The log lines written at the head of one iteration of while (!success).
EncodeLogs(withAudio) ==
    << IF withAudio THEN "Processing with audio..." ELSE "Processing without audio...",
       "Command", "Starting FFmpeg processing..." >>

\* Mutant of RetryWithoutAudio: the retry forgets attemptWithAudio = false.
RetryKeepingAudio(j) == [j EXCEPT !.pc = "delPartial"]

\* What a failed attempt that included audio does before it retries.
RetryWithoutAudio(j) == [j EXCEPT !.attemptWithAudio = FALSE, !.pc = "delPartial"]

\* Mutant of ShouldProcessAudio: the overlay audio file is not looked at.
ShouldProcessAudioOfInput(cfg, hasInputAudio) == hasInputAudio

\* const processAudio = !!(config.audioFile || hasInputAudio)
ShouldProcessAudio(cfg, hasInputAudio) == cfg.audioFile \/ hasInputAudio

\* From "Determine if we should process audio" to the first exec of the loop.
StartEncoding(s, j) ==
    LET processAudio == ShouldProcessAudio(j.cfg, j.hasInputAudio)
        s1 == IF processAudio THEN s
              ELSE addLog(s, "warn: no audio track - processing video only")
        s2 == addLogs(s1, [k \in 1..Len(j.cfg.segments) |-> "Segment"])
        s3 == addLog(s2, IF canUseSimpleMode(j.cfg) THEN "Using simple mode"
                         ELSE "Using complex filter mode")
    IN  [ state |-> addLogs(s3, EncodeLogs(processAudio)),
          job |-> [j EXCEPT !.processAudio = processAudio,
                            !.attemptWithAudio = processAudio,
                            !.encodes = <<processAudio>>,
                            !.pc = "encode"] ]

NewJob(cfg) ==
    [ pc |-> "fetchVideo", inst |-> ffmpegRef, cfg |-> cfg,
      hasInputAudio |-> FALSE, processAudio |-> FALSE, attemptWithAudio |-> FALSE,
      encodes |-> << >>, audioFail |-> "none", success |-> FALSE, caught |-> NoError ]

\* The caller starts a job only while it sees none running and no output shown
\* (the Process / Run button is rendered only then).
CallerMayStart == ~state.isProcessing /\ state.outputUrl = NoUrl

\* Mutant of ProcessCallWith: process(config) without its two guards.
ProcessCallUnguarded(maxJobs, configs) ==
    /\ hook = "primary"
    /\ CallerMayStart
    /\ Len(jobs) < maxJobs
    /\ UNCHANGED <<hook, env, page, devtools, ffmpegRef, engines, loads, loadCalls, nResets>>
    /\ \E cfg \in configs :
         LET s1 == addLog(clearLogs(state), "Processing segment(s)...")
             s2 == [s1 EXCEPT !.isProcessing = TRUE, !.progress = 0,
                              !.error = NoError, !.outputUrl = NoUrl]
         IN  /\ state' = addLog(s2, "Loading video file")
             /\ jobs' = Append(jobs, NewJob(cfg))

\* process(config) up to its first await (fetchFile of the video)
ProcessCallWith(maxJobs, configs) ==
    /\ hook = "primary"
    /\ CallerMayStart
    /\ Len(jobs) < maxJobs
    /\ UNCHANGED <<hook, env, page, devtools, ffmpegRef, engines, loads, loadCalls, nResets>>
    /\ \E cfg \in configs :
         IF ~cfg.videoFile \/ Len(cfg.segments) = 0
         THEN /\ state' = [state EXCEPT !.error = "Please add a video file and at least one segment"]
              /\ UNCHANGED jobs
         ELSE IF ~Loaded(ffmpegRef)
         THEN /\ state' = [state EXCEPT !.error = "FFmpeg not loaded"]
              /\ UNCHANGED jobs
         ELSE LET s1 == addLog(clearLogs(state), "Processing segment(s)...")
                  s2 == [s1 EXCEPT !.isProcessing = TRUE, !.progress = 0,
                                   !.error = NoError, !.outputUrl = NoUrl]
              IN  /\ state' = addLog(s2, "Loading video file")
                  /\ jobs' = Append(jobs, NewJob(cfg))

ProcessCall(maxJobs) == ProcessCallWith(maxJobs, Configs)

Process == ProcessCall(MaxJobs)

ProcessAgain == ProcessCall(MaxJobsOverlap)

\* process(config) with a config from the edges of the segment validation
ProcessEdges == ProcessCallWith(MaxJobs, EdgeConfigs)

JobCaught(j, msg) ==
    /\ state' = ProcessCatch(state, msg)
    /\ jobs' = [jobs EXCEPT ![j] = [@ EXCEPT !.pc = "done", !.caught = msg]]

PFrame == UNCHANGED <<hook, env, page, devtools, ffmpegRef, loads, loadCalls, nResets>>

\* fetchFile(config.videoFile) settles; writeFile("input.mp4") is issued
PFetchVideo(j) ==
    /\ jobs[j].pc = "fetchVideo"
    /\ PFrame /\ UNCHANGED engines
    /\ \E ok \in BOOLEAN :
         IF ok THEN /\ jobs' = [jobs EXCEPT ![j].pc = "writeVideo"]
                    /\ state' = state
         ELSE JobCaught(j, "fetchFile failed")

\* writeFile("input.mp4") settles; the probe listener is registered and the
\* probe exec issued
PWriteVideo(j) ==
    /\ jobs[j].pc = "writeVideo"
    /\ PFrame
    /\ \E ok \in BOOLEAN :
         IF ok
         THEN /\ engines' = [engines EXCEPT ![jobs[j].inst] =
                               [WriteFile(@, "input.mp4") EXCEPT !.listeners = @ + 1]]
              /\ state' = addLogs(state, <<"Video file loaded into memory",
                                           "Analyzing video file...">>)
              /\ jobs' = [jobs EXCEPT ![j].pc = "probe"]
         ELSE /\ UNCHANGED engines
              /\ JobCaught(j, "engine error")

\* the probe exec settles; its exit code is not read. Then the duration parse,
\* the audio scan, the segment validation, and either the overlay audio's
\* fetchFile or the first encode.
PProbe(j) ==
    /\ jobs[j].pc = "probe"
    /\ PFrame /\ UNCHANGED engines
    /\ \E ok \in BOOLEAN, dur \in Durations, audio \in BOOLEAN :
         IF ~ok THEN JobCaught(j, "engine error")
         ELSE LET s1 == IF dur > 0 THEN addLog(state, "Video duration") ELSE state
                  s2 == addLog(s1, IF audio THEN "Audio track detected"
                                   ELSE "No audio track found")
                  v == Validation(jobs[j].cfg, dur)
                  s3 == addLogs(s2, v.logs)
                  j1 == [jobs[j] EXCEPT !.hasInputAudio = audio]
              IN  IF v.err # NoError
                  THEN /\ state' = ProcessCatch(s3, v.err)
                       /\ jobs' = [jobs EXCEPT ![j] = [j1 EXCEPT !.pc = "done",
                                                                 !.caught = v.err]]
                  ELSE IF j1.cfg.audioFile
                  THEN /\ state' = addLog(s3, "Loading audio file")
                       /\ jobs' = [jobs EXCEPT ![j] = [j1 EXCEPT !.pc = "fetchAudio"]]
                  ELSE LET r == StartEncoding(s3, j1)
                       IN  /\ state' = r.state
                           /\ jobs' = [jobs EXCEPT ![j] = r.job]

\* fetchFile(config.audioFile) settles; writeFile("input_audio") is issued
PFetchAudio(j) ==
    /\ jobs[j].pc = "fetchAudio"
    /\ PFrame /\ UNCHANGED engines
    /\ \E ok \in BOOLEAN :
         IF ok THEN /\ jobs' = [jobs EXCEPT ![j].pc = "writeAudio"]
                    /\ state' = state
         ELSE JobCaught(j, "fetchFile failed")

\* writeFile("input_audio") settles; the first encode is issued
PWriteAudio(j) ==
    /\ jobs[j].pc = "writeAudio"
    /\ PFrame
    /\ \E ok \in BOOLEAN :
         IF ok
         THEN LET r == StartEncoding(addLog(state, "Audio file loaded into memory"), jobs[j])
              IN  /\ engines' = [engines EXCEPT ![jobs[j].inst] = WriteFile(@, "input_audio")]
                  /\ state' = r.state
                  /\ jobs' = [jobs EXCEPT ![j] = r.job]
         ELSE /\ UNCHANGED engines
              /\ JobCaught(j, "engine error")

\* deleteFile(name) resolves only if the entry exists; the engine may also reject it.
DeleteOutcomes(e, name) == IF name \in e.files THEN BOOLEAN ELSE {FALSE}

\* Byte counts readFile may return for the output.
Sizes == {0, 999, 1000, 4096}

\* The encode exec settles: exitCode, and whether the engine left an output.mp4.
PEncode(j) ==
    /\ jobs[j].pc = "encode"
    /\ PFrame
    /\ \E ok \in BOOLEAN, exitCode \in {0, 1}, wrote \in BOOLEAN :
         LET job == jobs[j]
             eng == IF wrote THEN [engines EXCEPT ![job.inst] = WriteFile(@, "output.mp4")]
                    ELSE engines
         IN  IF ~ok
             THEN /\ UNCHANGED engines
                  /\ JobCaught(j, "engine error")
             ELSE /\ engines' = eng
                  /\ IF exitCode # 0
                     THEN LET s1 == addLog(state, "warn: FFmpeg exited with code")
                          IN  IF job.attemptWithAudio
                              THEN /\ state' = addLog(s1, "warn: Audio processing failed, retrying without audio...")
                                   /\ jobs' = [jobs EXCEPT ![j] =
                                                 [RetryWithoutAudio(job) EXCEPT !.audioFail = "exit"]]
                              ELSE /\ state' = ProcessCatch(s1, "FFmpeg exited with code")
                                   /\ jobs' = [jobs EXCEPT ![j] =
                                                 [job EXCEPT !.pc = "done",
                                                             !.caught = "FFmpeg exited with code"]]
                     ELSE /\ state' = addLog(state, "Reading output file...")
                          /\ jobs' = [jobs EXCEPT ![j].pc = "read"]

\* Mutant of PDelPartial: a rejected deleteFile("output.mp4") ends the job.
PDelPartialStrict(j) ==
    /\ jobs[j].pc = "delPartial"
    /\ PFrame
    /\ \E ok \in DeleteOutcomes(engines[jobs[j].inst], "output.mp4") :
         IF ok
         THEN /\ engines' = [engines EXCEPT ![jobs[j].inst] = DeleteFile(@, "output.mp4")]
              /\ state' = addLogs(state, EncodeLogs(jobs[j].attemptWithAudio))
              /\ jobs' = [jobs EXCEPT ![j] =
                            [@ EXCEPT !.pc = "encode",
                                      !.encodes = Append(@, jobs[j].attemptWithAudio)]]
         ELSE /\ UNCHANGED engines
              /\ JobCaught(j, "engine error")

\* deleteFile("output.mp4") before the retry settles (a rejection is swallowed);
\* the loop runs again: the next encode is issued.
PDelPartial(j) ==
    /\ jobs[j].pc = "delPartial"
    /\ PFrame
    /\ \E ok \in DeleteOutcomes(engines[jobs[j].inst], "output.mp4") :
         /\ engines' = IF ok THEN [engines EXCEPT ![jobs[j].inst] = DeleteFile(@, "output.mp4")]
                       ELSE engines
         /\ state' = addLogs(state, EncodeLogs(jobs[j].attemptWithAudio))
         /\ jobs' = [jobs EXCEPT ![j] =
                       [@ EXCEPT !.pc = "encode",
                                 !.encodes = Append(@, jobs[j].attemptWithAudio)]]

\* The success branch of the loop: the object URL, the closing log line and the
\* setState that publishes the outcome; then the cleanup's first deleteFile.
PublishSuccess(s, job, url) ==
    [addLog(s, IF ~job.attemptWithAudio /\ job.processAudio
               THEN "Processing complete! (video only - audio failed)"
               ELSE "Processing complete!")
     EXCEPT !.isProcessing = FALSE, !.progress = 100, !.outputUrl = url]

\* readFile("output.mp4") settles
PRead(j) ==
    /\ jobs[j].pc = "read"
    /\ PFrame /\ UNCHANGED engines
    /\ \E ok \in BOOLEAN, size \in Sizes :
         LET job == jobs[j]
         IN  IF ~ok \/ "output.mp4" \notin engines[job.inst].files
             THEN JobCaught(j, "engine error")
             ELSE IF size < MinOutputPrimary
             THEN LET s1 == addLog(state, "warn: Output file is too small")
                  IN  IF job.attemptWithAudio
                      THEN /\ state' = addLog(s1, "warn: Output corrupted with audio, retrying without audio...")
                           /\ jobs' = [jobs EXCEPT ![j] =
                                         [RetryWithoutAudio(job) EXCEPT !.audioFail = "small"]]
                      ELSE /\ state' = ProcessCatch(s1, "Output file is corrupted or empty")
                           /\ jobs' = [jobs EXCEPT ![j] =
                                         [job EXCEPT !.pc = "done",
                                                     !.caught = "Output file is corrupted or empty"]]
             ELSE /\ state' = PublishSuccess(state, job, j)
                  /\ jobs' = [jobs EXCEPT ![j] = [job EXCEPT !.success = TRUE,
                                                             !.pc = "cleanInput"]]

\* Cleanup: await ffmpeg.deleteFile("input.mp4") settles
PCleanInput(j) ==
    /\ jobs[j].pc = "cleanInput"
    /\ PFrame
    /\ \E ok \in DeleteOutcomes(engines[jobs[j].inst], "input.mp4") :
         IF ok
         THEN /\ engines' = [engines EXCEPT ![jobs[j].inst] = DeleteFile(@, "input.mp4")]
              /\ state' = state
              /\ jobs' = [jobs EXCEPT ![j].pc =
                            IF jobs[j].cfg.audioFile THEN "cleanAudio" ELSE "cleanOutput"]
         ELSE /\ UNCHANGED engines
              /\ JobCaught(j, "engine error")

\* Cleanup: await ffmpeg.deleteFile("input_audio") settles
PCleanAudio(j) ==
    /\ jobs[j].pc = "cleanAudio"
    /\ PFrame
    /\ \E ok \in DeleteOutcomes(engines[jobs[j].inst], "input_audio") :
         IF ok
         THEN /\ engines' = [engines EXCEPT ![jobs[j].inst] = DeleteFile(@, "input_audio")]
              /\ state' = state
              /\ jobs' = [jobs EXCEPT ![j].pc = "cleanOutput"]
         ELSE /\ UNCHANGED engines
              /\ JobCaught(j, "engine error")

\* Cleanup: try { await ffmpeg.deleteFile("output.mp4") } catch {} settles
PCleanOutput(j) ==
    /\ jobs[j].pc = "cleanOutput"
    /\ PFrame
    /\ \E ok \in DeleteOutcomes(engines[jobs[j].inst], "output.mp4") :
         /\ engines' = IF ok THEN [engines EXCEPT ![jobs[j].inst] = DeleteFile(@, "output.mp4")]
                       ELSE engines
         /\ state' = state
         /\ jobs' = [jobs EXCEPT ![j].pc = "done"]

ProcessStep ==
    \E j \in 1..Len(jobs) :
        /\ hook = "primary"
        /\ \/ PFetchVideo(j) \/ PWriteVideo(j) \/ PProbe(j) \/ PFetchAudio(j)
           \/ PWriteAudio(j) \/ PEncode(j) \/ PDelPartial(j) \/ PRead(j)
           \/ PCleanInput(j) \/ PCleanAudio(j) \/ PCleanOutput(j)

----------------------------------------------------------------------------
(* execute(command, files): the raw command job *)

BLOCKED_PROTOCOLS ==
    <<"http:", "https:", "ftp:", "rtmp:", "rtsp:", "file:", "pipe:", "data:",
      "tcp:", "udp:", "tls:">>

BLOCKED_FILTERS == <<"movie", "amovie", "lavfi">>

FilterFlags == {"-filter_complex", "-vf", "-af", "-lavfi"}

\* One parsed argument: its text, and which denylisted substrings its
\* lower-cased text includes (what arg.includes(proto) / filterVal.includes(f) see).
Arg(text, includes) == [text |-> text, includes |-> includes]

IsFlag(a) == a.text \in {"-", "-i", "-y", "-f", "-vn"} \cup FilterFlags

\* The first entry of a denylist that the argument includes, or "" if none.
RECURSIVE FirstIncluded(_, _)
FirstIncluded(list, a) ==
    IF list = << >> THEN ""
    ELSE IF Head(list) \in a.includes THEN Head(list)
    ELSE FirstIncluded(Tail(list), a)

\* Mutant of validateArgs: only the protocol denylist is applied.
RECURSIVE validateProtocolsOnly(_)
validateProtocolsOnly(args) ==
    IF args = << >> THEN NoError
    ELSE LET proto == FirstIncluded(BLOCKED_PROTOCOLS, Head(args))
         IN  IF proto # "" THEN "Blocked: protocol " \o proto
             ELSE validateProtocolsOnly(Tail(args))

\* validateArgs: the first offence in argument order, or NoError
RECURSIVE validateFrom(_, _)
validateFrom(args, i) ==
    IF i > Len(args) THEN NoError
    ELSE LET proto == FirstIncluded(BLOCKED_PROTOCOLS, args[i])
             f == IF args[i].text \in FilterFlags /\ i + 1 <= Len(args)
                  THEN FirstIncluded(BLOCKED_FILTERS, args[i + 1])
                  ELSE ""
         IN  IF proto # "" THEN "Blocked: protocol " \o proto
             ELSE IF f # "" THEN "Blocked: filter " \o f
             ELSE validateFrom(args, i + 1)

validateArgs(args) == validateFrom(args, 1)

\* parseCommand's outputFile: the last argument unless it starts with "-"
OutputFile(args) ==
    IF Len(args) > 0 /\ ~IsFlag(args[Len(args)]) THEN args[Len(args)].text
    ELSE "output.mp4"

\* outputFile.split(".").pop().toLowerCase()
Ext(name) ==
    CASE name = "output.mp4" -> "mp4"
      [] name = "output.mp3" -> "mp3"
      [] OTHER -> name

AudioExts == {"mp3", "wav", "aac", "ogg", "flac", "m4a", "opus"}

\* Commands a caller may pass, as parseCommand splits them.
Commands ==
    { << Arg("-i", {}), Arg("input_video.mp4", {}), Arg("output.mp4", {}) >>,
      << Arg("-i", {}), Arg("input_video.mp4", {}), Arg("-vn", {}), Arg("output.mp3", {}) >>,
      << Arg("-i", {}), Arg("http://host/a.mp4", {"http:"}), Arg("output.mp4", {}) >>,
      << Arg("-i", {}), Arg("input_video.mp4", {}), Arg("-vf", {}),
         Arg("movie=/etc/passwd", {"movie"}), Arg("-f", {}), Arg("-", {}) >> }

\* A token as the characters typed, cut into pieces so that every denylisted
\* string it may contain is a piece of its own.
RECURSIVE Join(_)
Join(pieces) == IF pieces = << >> THEN "" ELSE Head(pieces) \o Join(Tail(pieces))

\* String.prototype.toLowerCase on a piece
toLowerCase(piece) ==
    CASE piece = "HTTP:" -> "http:"
      [] piece = "Movie" -> "movie"
      [] OTHER -> piece

\* The denylisted strings that s.includes(x) finds in a lower-cased piece.
IncludedIn(piece) ==
    CASE piece = "amovie" -> {"movie", "amovie"}
      [] piece = "https:" -> {"https:"}
      [] piece = "metadata:" -> {"data:"}
      [] piece \in {BLOCKED_PROTOCOLS[k] : k \in 1..Len(BLOCKED_PROTOCOLS)} -> {piece}
      [] piece \in {BLOCKED_FILTERS[k] : k \in 1..Len(BLOCKED_FILTERS)} -> {piece}
      [] OTHER -> {}

\* args[i] as validateArgs sees it: arg = args[i].toLowerCase(), arg.includes(...)
Token(pieces) ==
    Arg(Join(pieces),
        UNION {IncludedIn(toLowerCase(pieces[k])) : k \in 1..Len(pieces)})

\* Commands around the denylist: a scheme inside a token, in upper case, in
\* the output name, after a harmless filter value; a file-reading filter after
\* each kind of filter flag; a filter flag with no value; harmless commands.
DenylistCommands ==
    { << Token(<<"-i">>), Token(<<"input_video.mp4">>), Token(<<"output.mp4">>) >>,
      << Token(<<"-i">>), Token(<<"http:", "//host/a.mp4">>), Token(<<"output.mp4">>) >>,
      << Token(<<"-i">>), Token(<<"HTTP:", "//host/a.mp4">>), Token(<<"output.mp4">>) >>,
      << Token(<<"-i">>), Token(<<"input_video.mp4">>), Token(<<"tcp:", "//host:9">>) >>,
      << Token(<<"-i">>), Token(<<"input_video.mp4">>), Token(<<"-af">>),
         Token(<<"volume=2">>), Token(<<"output.mp3">>) >>,
      << Token(<<"-i">>), Token(<<"input_video.mp4">>), Token(<<"-af">>),
         Token(<<"volume=2">>), Token(<<"concat:a|", "file:", "b.mp4">>) >>,
      << Token(<<"-i">>), Token(<<"input_video.mp4">>), Token(<<"-vf">>),
         Token(<<"Movie", "=/etc/passwd">>), Token(<<"output.mp4">>) >>,
      << Token(<<"-i">>), Token(<<"input_video.mp4">>), Token(<<"-filter_complex">>),
         Token(<<"amovie", "=x.mp3[a]">>), Token(<<"output.mp4">>) >>,
      << Token(<<"-lavfi">>), Token(<<"movie", "=x.mp4">>), Token(<<"output.mp4">>) >>,
      << Token(<<"-i">>), Token(<<"input_video.mp4">>), Token(<<"-vf">>) >> }

File(name, size) == [name |-> name, size |-> size]

FileLists ==
    { << >>,
      << File("input_video.mp4", MAX_FILE_SIZE) >>,
      << File("input_large.mov", MAX_FILE_SIZE + 1) >>,
      << File("input_video.mp4", 1024), File("input_audio.mp3", MAX_FILE_SIZE + 1) >> }

TimeoutMessage == "Processing timed out after 10 minutes. Try a shorter or simpler operation."

\* data.length before readFile(outputFile) has resolved
NotRead == -1

NewRawJob(args, files) ==
    [ pc |-> "start", inst |-> ffmpegRef, args |-> args, files |-> files, k |-> 1,
      outputFile |-> "", timer |-> "none", bg |-> FALSE, execs |-> 0,
      outSize |-> NotRead, success |-> FALSE, caught |-> NoError ]

\* catch (err) of execute(): the same two statements as process()
ExecuteCatch(s, msg) == ProcessCatch(s, msg)

\* Mutant of Upload: the loop without its size check.
UploadUnchecked(s, job, k) ==
    IF k <= Len(job.files)
    THEN [state |-> addLog(s, "Loading file"),
          job |-> [job EXCEPT !.pc = "fetchFile", !.k = k]]
    ELSE LET err == validateArgs(job.args)
         IN  IF err # NoError
             THEN [state |-> ExecuteCatch(s, err),
                   job |-> [job EXCEPT !.pc = "done", !.caught = err]]
             ELSE [state |-> addLogs(s, <<"Command", "Starting FFmpeg processing...">>),
                   job |-> [job EXCEPT !.pc = "exec", !.timer = "pending",
                                       !.execs = @ + 1,
                                       !.outputFile = OutputFile(job.args)]]

\* The upload loop from file k on, then the parse, the validation, the timer
\* and the exec: everything up to the next await, or the throw that ends the job.
Upload(s, job, k) ==
    IF k <= Len(job.files)
    THEN IF job.files[k].size > MAX_FILE_SIZE
         THEN LET msg == "File exceeds the size limit: " \o job.files[k].name
              IN  [state |-> ExecuteCatch(s, msg),
                   job |-> [job EXCEPT !.pc = "done", !.caught = msg]]
         ELSE [state |-> addLog(s, "Loading file"),
               job |-> [job EXCEPT !.pc = "fetchFile", !.k = k]]
    ELSE LET err == validateArgs(job.args)
         IN  IF err # NoError
             THEN [state |-> ExecuteCatch(s, err),
                   job |-> [job EXCEPT !.pc = "done", !.caught = err]]
             ELSE [state |-> addLogs(s, <<"Command", "Starting FFmpeg processing...">>),
                   job |-> [job EXCEPT !.pc = "exec", !.timer = "pending",
                                       !.execs = @ + 1,
                                       !.outputFile = OutputFile(job.args)]]

\* execute(command, files) up to its first await
ExecuteCallWith(maxJobs, commands, fileLists) ==
    /\ hook = "raw"
    /\ CallerMayStart
    /\ Len(jobs) < maxJobs
    /\ UNCHANGED <<hook, env, page, devtools, ffmpegRef, engines, loads, loadCalls, nResets>>
    /\ \E args \in commands, files \in fileLists :
         IF ~Loaded(ffmpegRef)
         THEN /\ state' = [state EXCEPT !.error = "FFmpeg not loaded"]
              /\ UNCHANGED jobs
         ELSE LET s1 == [clearLogs(state) EXCEPT !.isProcessing = TRUE, !.progress = 0,
                                                 !.error = NoError, !.outputUrl = NoUrl,
                                                 !.outputType = "null"]
                  r == Upload(s1, NewRawJob(args, files), 1)
              IN  /\ state' = r.state
                  /\ jobs' = Append(jobs, r.job)

ExecuteCall(maxJobs) == ExecuteCallWith(maxJobs, Commands, FileLists)

Execute == ExecuteCall(MaxJobs)

ExecuteAgain == ExecuteCall(MaxJobsOverlap)

\* execute(command, files) with a command from around the denylist
ExecuteDenylist == ExecuteCallWith(MaxJobs, DenylistCommands, FileLists)

XFrame == UNCHANGED <<hook, env, page, devtools, ffmpegRef, loads, loadCalls, nResets>>

\* fetchFile(file) settles; writeFile(name, data) is issued
XFetchFile(j) ==
    /\ jobs[j].pc = "fetchFile"
    /\ XFrame /\ UNCHANGED engines
    /\ \E ok \in BOOLEAN :
         IF ok THEN /\ jobs' = [jobs EXCEPT ![j].pc = "writeFile"]
                    /\ state' = state
         ELSE JobCaught(j, "fetchFile failed")

\* writeFile(name, data) settles; the loop goes on
XWriteFile(j) ==
    /\ jobs[j].pc = "writeFile"
    /\ XFrame
    /\ \E ok \in BOOLEAN :
         IF ok
         THEN LET r == Upload(state, jobs[j], jobs[j].k + 1)
              IN  /\ engines' = [engines EXCEPT ![jobs[j].inst] =
                                    WriteFile(@, jobs[j].files[jobs[j].k].name)]
                  /\ state' = r.state
                  /\ jobs' = [jobs EXCEPT ![j] = r.job]
         ELSE /\ UNCHANGED engines
              /\ JobCaught(j, "engine error")

\* Promise.race: ffmpeg.exec(mappedArgs) settles first
XExec(j) ==
    /\ jobs[j].pc = "exec"
    /\ XFrame
    /\ \E ok \in BOOLEAN, exitCode \in {0, 1}, wrote \in BOOLEAN :
         IF ~ok
         THEN /\ UNCHANGED engines
              /\ JobCaught(j, "engine error")
         ELSE /\ engines' = IF wrote
                            THEN [engines EXCEPT ![jobs[j].inst] = WriteFile(@, jobs[j].outputFile)]
                            ELSE engines
              /\ IF exitCode # 0
                 THEN JobCaught(j, "FFmpeg exited with code")
                 ELSE /\ state' = addLog(state, "Reading output file...")
                      /\ jobs' = [jobs EXCEPT ![j].pc = "read"]

\* Promise.race: the timer fires first; the exec goes on in the engine
XTimeout(j) ==
    /\ jobs[j].pc = "exec"
    /\ jobs[j].timer = "pending"
    /\ XFrame /\ UNCHANGED engines
    /\ state' = ExecuteCatch(state, TimeoutMessage)
    /\ jobs' = [jobs EXCEPT ![j] = [@ EXCEPT !.pc = "done", !.caught = TimeoutMessage,
                                             !.timer = "fired", !.bg = TRUE]]

\* Mutant of XTimerLate: the late rejection reaches the job's catch.
XTimerLateCaught(j) ==
    /\ jobs[j].pc # "exec"
    /\ jobs[j].timer = "pending"
    /\ XFrame /\ UNCHANGED engines
    /\ state' = ExecuteCatch(state, TimeoutMessage)
    /\ jobs' = [jobs EXCEPT ![j].timer = "fired"]

\* The timer fires after the race was decided: its rejection has no handler left.
XTimerLate(j) ==
    /\ jobs[j].pc # "exec"
    /\ jobs[j].timer = "pending"
    /\ XFrame /\ UNCHANGED <<engines, state>>
    /\ jobs' = [jobs EXCEPT ![j].timer = "fired"]

\* Mutant of XBackground: the abandoned exec's result is taken up by the job.
XBackgroundUsed(j) ==
    /\ jobs[j].bg
    /\ XFrame
    /\ engines' = [engines EXCEPT ![jobs[j].inst] = WriteFile(@, jobs[j].outputFile)]
    /\ state' = addLog(state, "Reading output file...")
    /\ jobs' = [jobs EXCEPT ![j] = [@ EXCEPT !.bg = FALSE, !.pc = "read"]]

\* An exec abandoned by the race settles inside the engine.
XBackground(j) ==
    /\ jobs[j].bg
    /\ XFrame /\ UNCHANGED state
    /\ \E wrote \in BOOLEAN :
         engines' = IF wrote
                    THEN [engines EXCEPT ![jobs[j].inst] = WriteFile(@, jobs[j].outputFile)]
                    ELSE engines
    /\ jobs' = [jobs EXCEPT ![j].bg = FALSE]

\* The first step of the cleanup loop after file k-1.
CleanFrom(job, k) ==
    IF k <= Len(job.files) THEN [job EXCEPT !.pc = "cleanFile", !.k = k]
    ELSE [job EXCEPT !.pc = "cleanOutput"]

\* Mutant of XRead: the output is taken whatever its length.
XReadAnyLength(j) ==
    /\ jobs[j].pc = "read"
    /\ XFrame /\ UNCHANGED engines
    /\ \E ok \in BOOLEAN, size \in {0, 99, 100, 4096} :
         LET job == jobs[j]
             isAudio == Ext(job.outputFile) \in AudioExts
         IN  IF ~ok \/ job.outputFile \notin engines[job.inst].files
             THEN JobCaught(j, "engine error")
             ELSE /\ state' = [addLog(state, "Done!")
                               EXCEPT !.isProcessing = FALSE, !.progress = 100,
                                      !.outputUrl = j,
                                      !.outputType = IF isAudio THEN "audio" ELSE "video"]
                  /\ jobs' = [jobs EXCEPT ![j] =
                                CleanFrom([job EXCEPT !.success = TRUE, !.outSize = size], 1)]

\* readFile(outputFile) settles
XRead(j) ==
    /\ jobs[j].pc = "read"
    /\ XFrame /\ UNCHANGED engines
    /\ \E ok \in BOOLEAN, size \in {0, 99, 100, 4096} :
         LET job == jobs[j]
             isAudio == Ext(job.outputFile) \in AudioExts
         IN  IF ~ok \/ job.outputFile \notin engines[job.inst].files
             THEN JobCaught(j, "engine error")
             ELSE IF size < MinOutputRaw
             THEN /\ state' = ExecuteCatch(state, "Output file is empty or corrupted")
                  /\ jobs' = [jobs EXCEPT ![j] =
                                [job EXCEPT !.pc = "done", !.outSize = size,
                                            !.caught = "Output file is empty or corrupted"]]
             ELSE /\ state' = [addLog(state, "Done!")
                               EXCEPT !.isProcessing = FALSE, !.progress = 100,
                                      !.outputUrl = j,
                                      !.outputType = IF isAudio THEN "audio" ELSE "video"]
                  /\ jobs' = [jobs EXCEPT ![j] =
                                CleanFrom([job EXCEPT !.success = TRUE, !.outSize = size], 1)]

\* Cleanup: try { await ffmpeg.deleteFile(name) } catch {} settles
XCleanFile(j) ==
    /\ jobs[j].pc = "cleanFile"
    /\ XFrame /\ UNCHANGED state
    /\ LET name == jobs[j].files[jobs[j].k].name
       IN  \E ok \in DeleteOutcomes(engines[jobs[j].inst], name) :
             /\ engines' = IF ok THEN [engines EXCEPT ![jobs[j].inst] = DeleteFile(@, name)]
                           ELSE engines
             /\ jobs' = [jobs EXCEPT ![j] = CleanFrom(@, jobs[j].k + 1)]

\* Cleanup: try { await ffmpeg.deleteFile(outputFile) } catch {} settles
XCleanOutput(j) ==
    /\ jobs[j].pc = "cleanOutput"
    /\ XFrame /\ UNCHANGED state
    /\ \E ok \in DeleteOutcomes(engines[jobs[j].inst], jobs[j].outputFile) :
         /\ engines' = IF ok THEN [engines EXCEPT ![jobs[j].inst] =
                                     DeleteFile(@, jobs[j].outputFile)]
                       ELSE engines
         /\ jobs' = [jobs EXCEPT ![j].pc = "done"]

ExecuteStep ==
    \E j \in 1..Len(jobs) :
        /\ hook = "raw"
        /\ \/ XFetchFile(j) \/ XWriteFile(j) \/ XExec(j) \/ XTimeout(j)
           \/ XTimerLate(j) \/ XBackground(j) \/ XRead(j)
           \/ XCleanFile(j) \/ XCleanOutput(j)

----------------------------------------------------------------------------
(* Synthesis: buildSimpleArgs / buildComplexArgs of process(), and the       *)
(* shell-command generator generateFFmpegCommand of the Index page           *)

Max(a, b) == IF a >= b THEN a ELSE b

\* seg.fadeIn || (i === 0 && config.globalFadeIn), i counted from 0
shouldFadeIn(cfg, i) == cfg.segments[i + 1].fadeIn \/ (i = 0 /\ cfg.globalFadeIn)

\* seg.fadeOut || (i === numSegments - 1 && config.globalFadeOut)
shouldFadeOut(cfg, i) ==
    cfg.segments[i + 1].fadeOut \/ (i = Len(cfg.segments) - 1 /\ cfg.globalFadeOut)

\* Mutant of FadeOutStart: the offset is not clamped at 0.
FadeOutStartUnclamped(duration, fadeDuration) == duration - fadeDuration

\* Math.max(0, duration - fadeDuration)
FadeOutStart(duration, fadeDuration) == Max(0, duration - fadeDuration)

\* Mutant of Fades: a global flag fades every segment.
FadesGlobalEverywhere(cfg, i) ==
    LET seg == cfg.segments[i + 1]
        fin == IF seg.fadeIn \/ cfg.globalFadeIn
               THEN << [t |-> "in", st |-> 0, d |-> cfg.fadeDuration] >> ELSE << >>
        fout == IF seg.fadeOut \/ cfg.globalFadeOut
                THEN << [t |-> "out", st |-> FadeOutStart(seg.end - seg.start, cfg.fadeDuration),
                         d |-> cfg.fadeDuration] >> ELSE << >>
    IN  fin \o fout

\* The fade nodes appended to the chain of segment i: ",fade=t=in:st=0:d=D"
\* and ",fade=t=out:st=S:d=D" (afade for audio, with the same numbers).
Fades(cfg, i) ==
    LET seg == cfg.segments[i + 1]
        fin == IF shouldFadeIn(cfg, i)
               THEN << [t |-> "in", st |-> 0, d |-> cfg.fadeDuration] >> ELSE << >>
        fout == IF shouldFadeOut(cfg, i)
                THEN << [t |-> "out", st |-> FadeOutStart(seg.end - seg.start, cfg.fadeDuration),
                         d |-> cfg.fadeDuration] >> ELSE << >>
    IN  fin \o fout

Label(kind, i) == <<kind, i>>

\* "[0:v]trim=start=S:end=E,setpts=PTS-STARTPTS" + fades + "[v<i>]"
VideoChain(cfg, i) ==
    [ node |-> "trim", src |-> "0:v",
      start |-> cfg.segments[i + 1].start, end |-> cfg.segments[i + 1].end,
      fades |-> Fades(cfg, i), out |-> << Label("v", i) >> ]

\* Mutant of AudioChain: the audio sub-chain of a segment gets no afade nodes.
AudioChainUnfaded(cfg, i) ==
    [ node |-> "atrim", src |-> IF cfg.audioFile THEN "1:a" ELSE "0:a",
      start |-> cfg.segments[i + 1].start, end |-> cfg.segments[i + 1].end,
      fades |-> << >>, out |-> << Label("a", i) >> ]

\* "[<audioInput>]atrim=start=S:end=E,asetpts=PTS-STARTPTS" + afades + "[a<i>]"
AudioChain(cfg, i) ==
    [ node |-> "atrim", src |-> IF cfg.audioFile THEN "1:a" ELSE "0:a",
      start |-> cfg.segments[i + 1].start, end |-> cfg.segments[i + 1].end,
      fades |-> Fades(cfg, i), out |-> << Label("a", i) >> ]

\* Mutant of ConcatInputs: the segments are taken in reverse order.
ConcatInputsReversed(n, withAudio) ==
    IF withAudio
    THEN [p \in 1..(2 * n) |->
            Label(IF p % 2 = 1 THEN "v" ELSE "a", n - 1 - ((p - 1) \div 2))]
    ELSE [p \in 1..n |-> Label("v", n - p)]

\* concatInputs.join(""): "[v0][a0][v1][a1]..." or "[v0][v1]..."
RECURSIVE ConcatInputsFrom(_, _, _)
ConcatInputsFrom(i, n, withAudio) ==
    IF i >= n THEN << >>
    ELSE (IF withAudio THEN << Label("v", i), Label("a", i) >> ELSE << Label("v", i) >>)
         \o ConcatInputsFrom(i + 1, n, withAudio)

ConcatInputs(n, withAudio) == ConcatInputsFrom(0, n, withAudio)

\* "<inputs>concat=n=N:v=1:a=A[outv][outa]"
ConcatNode(cfg, withAudio) ==
    [ node |-> "concat", ins |-> ConcatInputs(Len(cfg.segments), withAudio),
      n |-> Len(cfg.segments), v |-> 1, a |-> IF withAudio THEN 1 ELSE 0,
      out |-> IF withAudio THEN << Label("outv", 0), Label("outa", 0) >>
              ELSE << Label("outv", 0) >> ]

\* [...videoFilters, ...audioFilters, concatFilter]
FilterComplex(cfg, withAudio) ==
    [i \in 1..Len(cfg.segments) |-> VideoChain(cfg, i - 1)]
    \o (IF withAudio THEN [i \in 1..Len(cfg.segments) |-> AudioChain(cfg, i - 1)] ELSE << >>)
    \o << ConcatNode(cfg, withAudio) >>

InputFiles(cfg) ==
    IF cfg.audioFile THEN << "input.mp4", "input_audio" >> ELSE << "input.mp4" >>

\* buildSimpleArgs(withAudio): -ss S -i input.mp4 -t (E - S) ..., no filter graph
buildSimpleArgs(cfg, withAudio) ==
    [ by |-> "buildSimpleArgs", inputs |-> InputFiles(cfg),
      ss |-> cfg.segments[1].start, t |-> cfg.segments[1].end - cfg.segments[1].start,
      filterComplex |-> << >>,
      maps |-> << >>, audio |-> withAudio ]

\* buildComplexArgs(withAudio): -i ... -filter_complex G -map [outv] (-map [outa])
buildComplexArgs(cfg, withAudio) ==
    [ by |-> "buildComplexArgs", inputs |-> InputFiles(cfg),
      ss |-> 0, t |-> 0,
      filterComplex |-> FilterComplex(cfg, withAudio),
      maps |-> IF withAudio THEN << Label("outv", 0), Label("outa", 0) >>
               ELSE << Label("outv", 0) >>,
      audio |-> withAudio ]

\* const buildProcessingArgs = canUseSimpleMode ? buildSimpleArgs : buildComplexArgs
buildProcessingArgs(cfg, withAudio) ==
    IF canUseSimpleMode(cfg) THEN buildSimpleArgs(cfg, withAudio)
    ELSE buildComplexArgs(cfg, withAudio)

Sentinel == "# Please add a video file and at least one time segment"

\* generateFFmpegCommand(config): the sentinel, or the command with its graph
\* (audio chains and a=1 always).
generateFFmpegCommand(cfg) ==
    IF ~cfg.videoFile \/ Len(cfg.segments) = 0
    THEN [ by |-> "generateFFmpegCommand", text |-> Sentinel, inputs |-> << >>,
           filterComplex |-> << >>, maps |-> << >> ]
    ELSE [ by |-> "generateFFmpegCommand", text |-> "ffmpeg",
           inputs |-> IF cfg.audioFile THEN << "video", "audio" >> ELSE << "video" >>,
           filterComplex |-> FilterComplex(cfg, TRUE),
           maps |-> << Label("outv", 0), Label("outa", 0) >> ]

\* Start and end (seconds) of the segments handed to synthesis: longer than,
\* as short as, and shorter than a fade, and an inverted one.
SynthTimes == { <<1, 4>>, <<2, 3>>, <<5, 3>> }

SynthSegs ==
    { Seg(tm[1], tm[2], fi, fo) : tm \in SynthTimes, fi \in BOOLEAN, fo \in BOOLEAN }

SynthSegLists(maxLen) == UNION { [1..n -> SynthSegs] : n \in 1..maxLen }

FadeDurations == {1, 2}

SynthConfigs ==
    [ videoFile : {TRUE}, audioFile : BOOLEAN, segments : SynthSegLists(MaxSegments),
      globalFadeIn : BOOLEAN, globalFadeOut : BOOLEAN, fadeDuration : FadeDurations ]

\* Nothing synthesised yet for the page's config.
NoOut == [by |-> "none"]

SynthFrame ==
    UNCHANGED <<hook, env, state, ffmpegRef, engines, loads, jobs, loadCalls, nResets,
                devtools>>

\* const command = useMemo(() => generateFFmpegCommand(config), [config])
Generate ==
    /\ page.shown
    /\ page.out.by = "none"
    /\ page' = [page EXCEPT !.out = generateFFmpegCommand(page.config)]
    /\ SynthFrame

\* process(): const args = buildProcessingArgs(attemptWithAudio)
BuildArgs ==
    /\ page.shown
    /\ page.out.by = "none"
    /\ page.config.videoFile /\ Len(page.config.segments) > 0
    /\ \E withAudio \in BOOLEAN :
         page' = [page EXCEPT !.out = buildProcessingArgs(page.config, withAudio)]
    /\ SynthFrame

\* The options buildSimpleArgs appends after its inputs, in its order, each
\* with its value ("" for a flag).
SimpleParams(withAudio) ==
    (IF withAudio
     THEN << <<"-c:v", "libx264">>, <<"-c:a", "aac">>, <<"-b:a", "128k">> >>
     ELSE << <<"-c:v", "libx264">>, <<"-an", "">> >>)
    \o << <<"-preset", "fast">>, <<"-crf", "23">>, <<"-pix_fmt", "yuv420p">>,
          <<"-movflags", "+faststart">>, <<"-y", "">> >>

\* The options buildComplexArgs appends after its -map options, in its order.
ComplexParams(withAudio) ==
    (IF withAudio THEN << <<"-c:a", "aac">>, <<"-b:a", "128k">> >> ELSE << >>)
    \o << <<"-c:v", "libx264">>, <<"-preset", "fast">>, <<"-crf", "23">>,
          <<"-pix_fmt", "yuv420p">>, <<"-movflags", "+faststart">>, <<"-y", "">> >>

\* The encode parameters of an output: its options whatever their order; an
\* output with no audio stream mapped is as muted as one with -an.
ParamsOf(params, audio) ==
    {params[k] : k \in 1..Len(params)} \cup (IF audio = "none" THEN {<<"-an", "">>} ELSE {})

\* The audio stream the engine takes for an output with no -map: the audio
\* stream with the most channels among all inputs, the first input on a tie.
\* channels[k] is the channel count of input k's audio stream, 0 for none.
DefaultAudio(channels) ==
    LET best == CHOOSE k \in 1..Len(channels) :
                    \A m \in 1..Len(channels) :
                        \/ channels[k] > channels[m]
                        \/ (channels[k] = channels[m] /\ k <= m)
    IN  IF channels[best] = 0 THEN "none"
        ELSE IF best = 1 THEN "0:a" ELSE "1:a"

\* The output an argument vector describes: the time range taken from the
\* inputs, the video and audio streams that reach the output, the encode
\* parameters and the file name.
Describes(args, channels) ==
    IF args.by = "buildSimpleArgs"
    THEN [ from |-> args.ss, to |-> args.ss + args.t,
           video |-> "0:v",
           audio |-> IF args.audio THEN DefaultAudio(channels) ELSE "none",
           params |-> ParamsOf(SimpleParams(args.audio),
                               IF args.audio THEN DefaultAudio(channels) ELSE "none"),
           file |-> "output.mp4" ]
    ELSE LET g == args.filterComplex
             aud == {k \in 1..Len(g) : g[k].node = "atrim"}
             audio == IF Label("outa", 0) \in {args.maps[k] : k \in 1..Len(args.maps)}
                      THEN g[CHOOSE k \in aud : TRUE].src ELSE "none"
         IN  [ from |-> g[1].start, to |-> g[1].end,
               video |-> g[1].src,
               audio |-> audio,
               params |-> ParamsOf(ComplexParams(args.audio), audio),
               file |-> "output.mp4" ]

\* Single segments that are in order, with no fade of any kind.
PathTimes == { <<0, 1>>, <<0, 4>>, <<1, 4>>, <<2, 3>>, <<3, 5>>, <<4, 5>> }

PathConfigs ==
    [ videoFile : {TRUE}, audioFile : BOOLEAN,
      segments : { << Seg(tm[1], tm[2], FALSE, FALSE) >> : tm \in PathTimes },
      globalFadeIn : {FALSE}, globalFadeOut : {FALSE}, fadeDuration : {1} ]

\* Channel counts of the audio streams of the inputs of a job: the primary
\* media (0 when it carries no audio) and, when supplied, the overlay audio.
Channels(cfg) ==
    IF cfg.audioFile THEN {<<p, o>> : p \in 0..2, o \in 1..2}
    ELSE {<<p>> : p \in 0..2}

\* buildSimpleArgs(withAudio) and buildComplexArgs(withAudio) for one job; an
\* attempt with audio is only made when processAudio is true.
BuildPaths ==
    /\ page.shown
    /\ page.out.by = "none"
    /\ canUseSimpleMode(page.config)
    /\ \E withAudio \in BOOLEAN, channels \in Channels(page.config) :
         /\ withAudio => (page.config.audioFile \/ channels[1] > 0)
         /\ page' = [page EXCEPT !.out =
                       [ by |-> "paths", withAudio |-> withAudio, channels |-> channels,
                         simple |-> Describes(buildSimpleArgs(page.config, withAudio), channels),
                         complex |-> Describes(buildComplexArgs(page.config, withAudio), channels) ]]
    /\ SynthFrame

\* process() from the audio decision on, as a function of the config and of
\* what the probe found: processAudio and the arguments of the encode
\* attempts of the loop, the first with attemptWithAudio = processAudio and,
\* when that one included audio and failed, the retry without audio.
Attempts ==
    /\ page.shown
    /\ page.out.by = "none"
    /\ page.config.videoFile /\ Len(page.config.segments) > 0
    /\ \E hasInputAudio \in BOOLEAN, retried \in BOOLEAN :
         LET processAudio == ShouldProcessAudio(page.config, hasInputAudio)
             flags == IF retried THEN <<processAudio, FALSE>> ELSE <<processAudio>>
         IN  /\ retried => processAudio
             /\ page' = [page EXCEPT !.out =
                           [ by |-> "process", hasInputAudio |-> hasInputAudio,
                             processAudio |-> processAudio,
                             attempts |-> [k \in 1..Len(flags) |->
                                             buildProcessingArgs(page.config, flags[k])] ]]
    /\ SynthFrame

----------------------------------------------------------------------------
(* Time strings: isValidTimeString and timeToSeconds. A string is the        *)
(* sequence of its characters.                                               *)

DigitChars == << "0", "1", "2", "3", "4", "5", "6", "7", "8", "9" >>

IsDigit(c) == \E d \in 1..10 : DigitChars[d] = c

AllDigits(s) == \A k \in 1..Len(s) : IsDigit(s[k])

\* String.prototype.trim
RECURSIVE trimStart(_)
trimStart(s) == IF s # << >> /\ Head(s) = " " THEN trimStart(Tail(s)) ELSE s

RECURSIVE trimEnd(_)
trimEnd(s) ==
    IF s # << >> /\ s[Len(s)] = " " THEN trimEnd(SubSeq(s, 1, Len(s) - 1)) ELSE s

trim(s) == trimEnd(trimStart(s))

\* s.split(":")
RECURSIVE splitFrom(_, _, _)
splitFrom(s, k, part) ==
    IF k > Len(s) THEN << part >>
    ELSE IF s[k] = ":" THEN << part >> \o splitFrom(s, k + 1, << >>)
    ELSE splitFrom(s, k + 1, Append(part, s[k]))

split(s) == splitFrom(s, 1, << >>)

\* Number(part) for a part made of digits; anything else is NaN, which the
\* caller's isNaN(p) || p < 0 refuses (a negative value stands for it here).
RECURSIVE Number(_)
Number(part) ==
    IF part = << >> THEN 0
    ELSE IF ~AllDigits(part) THEN 0 - 1
    ELSE Number(SubSeq(part, 1, Len(part) - 1)) * 10
         + (CHOOSE d \in 0..9 : DigitChars[d + 1] = part[Len(part)])

\* /^\d{1,3}:\d{2}(:\d{2})?$|^\d+$/.test(s)
MatchesTimePattern(s) ==
    LET parts == split(s)
    IN  /\ \A k \in 1..Len(parts) : AllDigits(parts[k])
        /\ \/ Len(parts) = 1 /\ Len(parts[1]) >= 1
           \/ /\ Len(parts) \in 2..3
              /\ Len(parts[1]) \in 1..3
              /\ \A k \in 2..Len(parts) : Len(parts[k]) = 2

isValidTimeString(time) ==
    LET trimmed == trim(time)
        parts == [k \in 1..Len(split(trimmed)) |-> Number(split(trimmed)[k])]
    IN  IF ~MatchesTimePattern(trimmed) THEN FALSE
        ELSE IF \E k \in 1..Len(parts) : parts[k] < 0 THEN FALSE
        ELSE IF Len(parts) = 3 THEN parts[2] < 60 /\ parts[3] < 60
        ELSE IF Len(parts) = 2 THEN parts[2] < 60
        ELSE Len(parts) = 1

timeToSeconds(time) ==
    LET trimmed == trim(time)
        parts == [k \in 1..Len(split(trimmed)) |-> Number(split(trimmed)[k])]
    IN  IF ~isValidTimeString(trimmed) THEN 0
        ELSE IF Len(parts) = 3 THEN parts[1] * 3600 + parts[2] * 60 + parts[3]
        ELSE IF Len(parts) = 2 THEN parts[1] * 60 + parts[2]
        ELSE parts[1]

\* Leading components typed by a user: one to four digits, none, a letter.
LeadParts ==
    { << "0" >>, << "7" >>, << "1", "2" >>, << "6", "1" >>, << "9", "0" >>,
      << "9", "9", "9" >>, << "1", "0", "0", "0" >>, << >>, << "a" >> }

\* Minutes and seconds components: below, at and above 60; one and three digits.
TailParts ==
    { << "0", "0" >>, << "0", "5" >>, << "5", "9" >>, << "6", "0" >>, << "6", "1" >>,
      << "7", "5" >>, << "5" >>, << "0", "0", "7" >> }

Pads == { << >>, << " " >> }

TimeTexts ==
    { l \o a \o r : l \in Pads, r \in Pads, a \in LeadParts }
    \cup { l \o a \o << ":" >> \o b \o r :
             l \in Pads, r \in Pads, a \in LeadParts, b \in TailParts }
    \cup { a \o << ":" >> \o b \o << ":" >> \o c :
             a \in LeadParts, b \in TailParts, c \in TailParts }
    \cup { << "1", ":", "0", "0", ":", "0", "0", ":", "0", "0" >> }

TimeFrame ==
    UNCHANGED <<hook, env, state, ffmpegRef, engines, loads, jobs, loadCalls, nResets,
                devtools>>

\* isValidTimeString(text) for the text of a time field
ValidateTime ==
    /\ page.shown
    /\ page.out.by = "none"
    /\ page' = [page EXCEPT !.out = [ by |-> "isValidTimeString",
                                      valid |-> isValidTimeString(page.config) ]]
    /\ TimeFrame

\* timeToSeconds(text) for the text of a time field
ParseTime ==
    /\ page.shown
    /\ page.out.by = "none"
    /\ page' = [page EXCEPT !.out = [ by |-> "timeToSeconds",
                                      seconds |-> timeToSeconds(page.config) ]]
    /\ TimeFrame

----------------------------------------------------------------------------
(* Bulk entry of segments: parseTimeSegments and TimeSegmentEditor.handleSave *)
(* The en-dash and the em-dash are the characters "en-dash" and "em-dash".   *)

Separators == { "\n", ",", ";" }

Dashes == { "-", "en-dash", "em-dash" }

\* input.split(/[\n,;]+/): the pieces between separators (empty ones included,
\* which filter(Boolean) removes after the trim)
RECURSIVE splitLines(_, _, _)
splitLines(s, k, part) ==
    IF k > Len(s) THEN << part >>
    ELSE IF s[k] \in Separators THEN << part >> \o splitLines(s, k + 1, << >>)
    ELSE splitLines(s, k + 1, Append(part, s[k]))

Lines(input) ==
    LET raw == splitLines(input, 1, << >>)
        trimmed == [k \in 1..Len(raw) |-> trim(raw[k])]
    IN  SelectSeq(trimmed, LAMBDA l : l # << >>)

\* \d{lead}:\d{2} and, with sec, :\d{2} at position i: the position after it, or 0
TimeAt(s, i, lead, sec) ==
    LET n == lead + 3 + (IF sec THEN 3 ELSE 0)
        j == i + lead
    IN  IF /\ i + n - 1 <= Len(s)
           /\ \A k \in i..(j - 1) : IsDigit(s[k])
           /\ s[j] = ":" /\ IsDigit(s[j + 1]) /\ IsDigit(s[j + 2])
           /\ sec => (s[j + 3] = ":" /\ IsDigit(s[j + 4]) /\ IsDigit(s[j + 5]))
        THEN i + n ELSE 0

\* The alternatives of \d{1,2}:\d{2}(?::\d{2})? in the order the engine tries them.
TimeTries == << <<2, TRUE>>, <<2, FALSE>>, <<1, TRUE>>, <<1, FALSE>> >>

\* \s* at position i: the position of the first character that is not a blank
RECURSIVE skipBlanks(_, _)
skipBlanks(s, i) == IF i <= Len(s) /\ s[i] = " " THEN skipBlanks(s, i + 1) ELSE i

\* The rest of the pattern after the first time, from position i:
\* \s*[-en-dash em-dash]\s*(time); the second time, or << >> for no match.
RestAt(s, i) ==
    LET d == skipBlanks(s, i)
    IN  IF d > Len(s) \/ s[d] \notin Dashes THEN << >>
        ELSE LET b == skipBlanks(s, d + 1)
                 ok == {c \in 1..4 : TimeAt(s, b, TimeTries[c][1], TimeTries[c][2]) # 0}
             IN  IF ok = {} THEN << >>
                 ELSE LET c == CHOOSE x \in ok : \A y \in ok : x <= y
                      IN  SubSeq(s, b, TimeAt(s, b, TimeTries[c][1], TimeTries[c][2]) - 1)

\* The match of the whole pattern that starts at position i: <<start, end>>, or << >>
MatchAt(s, i) ==
    LET ok == {c \in 1..4 :
                 LET e == TimeAt(s, i, TimeTries[c][1], TimeTries[c][2])
                 IN  e # 0 /\ RestAt(s, e) # << >>}
    IN  IF ok = {} THEN << >>
        ELSE LET c == CHOOSE x \in ok : \A y \in ok : x <= y
                 e == TimeAt(s, i, TimeTries[c][1], TimeTries[c][2])
             IN  << SubSeq(s, i, e - 1), RestAt(s, e) >>

\* line.match(/(time)\s*[-...]\s*(time)/): the leftmost match, or << >>
Match(line) ==
    LET at == {i \in 1..Len(line) : MatchAt(line, i) # << >>}
    IN  IF at = {} THEN << >>
        ELSE MatchAt(line, CHOOSE i \in at : \A k \in at : i <= k)

\* A segment as the editor holds it: its times as the strings typed.
TextSeg(start, end, fi, fo) == [start |-> start, end |-> end, fadeIn |-> fi, fadeOut |-> fo]

RECURSIVE parseLines(_)
parseLines(lines) ==
    IF lines = << >> THEN << >>
    ELSE LET m == Match(Head(lines))
         IN  (IF m # << >> THEN << TextSeg(m[1], m[2], FALSE, FALSE) >> ELSE << >>)
             \o parseLines(Tail(lines))

parseTimeSegments(input) == parseLines(Lines(input))

\* segments.find((s) => s.start === newSeg.start && s.end === newSeg.end):
\* the index of the first previous segment with the range of newSeg, or 0
find(segments, newSeg) ==
    LET same == {k \in 1..Len(segments) :
                   segments[k].start = newSeg.start /\ segments[k].end = newSeg.end}
    IN  IF same = {} THEN 0 ELSE CHOOSE k \in same : \A m \in same : k <= m

\* newSegments.map(...): each parsed segment takes the fade flags of the first
\* previous segment with the same start and end, if there is one.
RECURSIVE withFades(_, _)
withFades(segments, newSegments) ==
    IF newSegments = << >> THEN << >>
    ELSE LET newSeg == Head(newSegments)
             existing == find(segments, newSeg)
         IN  << IF existing # 0
                THEN [newSeg EXCEPT !.fadeIn = segments[existing].fadeIn,
                                    !.fadeOut = segments[existing].fadeOut]
                ELSE newSeg >>
             \o withFades(segments, Tail(newSegments))

\* handleSave: const newSegments = parseTimeSegments(editText), then the map
handleSave(segments, editText) == withFades(segments, parseTimeSegments(editText))

\* Times typed into the text area.
T100 == << "1", ":", "0", "0" >>

T200 == << "2", ":", "0", "0" >>

T300 == << "3", ":", "0", "0" >>

T430 == << "4", ":", "3", "0" >>

\* Pieces of a bulk text: ranges with each dash, with blanks, with hours, with
\* three-digit minutes, with seconds above 59, with bare seconds, with text
\* around them, and pieces that are no range.
Pieces ==
    { T100 \o << "-" >> \o T200,
      T300 \o << " ", "-", " " >> \o T430,
      T100 \o << "en-dash" >> \o T300,
      T200 \o << "em-dash" >> \o T300,
      << "1", ":", "2", "6", ":", "0", "5", "-", "1", ":", "2", "7", ":", "2", "7" >>,
      << "1", "2", "5", ":", "0", "0", "-", "1", "3", "0", ":", "0", "0" >>,
      << "1", "2", "5", ":", "0", "0", "-", "1", "3", ":", "0", "0" >>,
      << "1", "2", ":", "7", "5", "-", "1", "3", ":", "0", "0" >>,
      << "9", "0", "-", "1", "2", "0" >>,
      << "a", "t", " " >> \o T100 \o << "-" >> \o T200,
      T100 \o << " ", "t", "o", " " >> \o T200,
      T100,
      << "i", "n", "t", "r", "o" >> }

\* A bulk text of one or two pieces.
EditTexts ==
    Pieces
    \cup { a \o << s >> \o b : a \in Pieces, b \in Pieces, s \in {"\n", ","} }
    \cup { T100 \o << "-" >> \o T200 \o << ";", " ", "\n" >> \o T300 \o << "-" >> \o T430 }

\* Segment lists held before the edit: none, one, two with different ranges,
\* two with the same range and different fade flags.
PreviousLists ==
    { << >>,
      << TextSeg(T100, T200, TRUE, FALSE) >>,
      << TextSeg(T300, T430, FALSE, TRUE), TextSeg(T100, T200, TRUE, TRUE) >>,
      << TextSeg(T100, T200, TRUE, FALSE), TextSeg(T100, T200, FALSE, TRUE) >>,
      << TextSeg(T100, T300, FALSE, FALSE), TextSeg(T200, T300, TRUE, FALSE) >> }

\* parseTimeSegments(editText)
ParseSegments ==
    /\ page.shown
    /\ page.out.by = "none"
    /\ page' = [page EXCEPT !.out = [ by |-> "parseTimeSegments",
                                      segments |-> parseTimeSegments(page.config.editText) ]]
    /\ TimeFrame

\* handleSave(): onSegmentsChange(updatedSegments)
HandleSave ==
    /\ page.shown
    /\ page.out.by = "none"
    /\ page' = [page EXCEPT !.out = [ by |-> "handleSave",
                                      segments |-> handleSave(page.config.segments,
                                                              page.config.editText) ]]
    /\ TimeFrame

----------------------------------------------------------------------------
(* The segment list in the editor: Add, inline edit, fade toggles, and the   *)
(* bulk editor opened and applied with its text unchanged.                   *)

T000 == << "0", "0", ":", "0", "0" >>

\* Times typed into the start and end fields of a row
RowTimes == { T000, T100, << "9", "0" >>, << "i", "n", "t", "r", "o" >> }

\* segments.map((s) => `${s.start}-${s.end}`).join("\n")
RECURSIVE joinRanges(_)
joinRanges(segments) ==
    IF segments = << >> THEN << >>
    ELSE Head(segments).start \o << "-" >> \o Head(segments).end
         \o (IF Len(segments) > 1 THEN << "\n" >> ELSE << >>)
         \o joinRanges(Tail(segments))

EditorFrame ==
    UNCHANGED <<hook, env, state, ffmpegRef, engines, loads, jobs, loadCalls, nResets,
                devtools>>

Held(segments) == [page EXCEPT !.config = [segments |-> segments], !.out = NoOut]

\* addEmptySegment
AddEmptySegment ==
    /\ page.shown
    /\ Len(page.config.segments) < MaxHeld
    /\ page' = Held(Append(page.config.segments, TextSeg(T000, T000, FALSE, FALSE)))
    /\ EditorFrame

\* SegmentRow.handleSave: onUpdate({ ...segment, start: editStart, end: editEnd })
SaveRow ==
    /\ page.shown
    /\ \E i \in 1..Len(page.config.segments), editStart \in RowTimes, editEnd \in RowTimes :
         page' = Held([page.config.segments EXCEPT ![i].start = editStart,
                                                   ![i].end = editEnd])
    /\ EditorFrame

\* toggleFadeIn(id) / toggleFadeOut(id)
ToggleFade ==
    /\ page.shown
    /\ \E i \in 1..Len(page.config.segments) :
         \/ page' = Held([page.config.segments EXCEPT ![i].fadeIn = ~@])
         \/ page' = Held([page.config.segments EXCEPT ![i].fadeOut = ~@])
    /\ EditorFrame

\* handleEditClick, then handleSave with the text as handleEditClick set it
ApplyUnchanged ==
    /\ page.shown
    /\ LET segments == page.config.segments
           editText == joinRanges(segments)
           updatedSegments == handleSave(segments, editText)
       IN  page' = [page EXCEPT !.config = [segments |-> updatedSegments],
                                !.out = [ by |-> "handleSave", before |-> segments,
                                          segments |-> updatedSegments ]]
    /\ EditorFrame

----------------------------------------------------------------------------
(* Segments as the editor holds them (times as typed) on their way to the    *)
(* command preview and to the encode.                                        *)

\* timeToSeconds(seg.start), timeToSeconds(seg.end) for every segment, as
\* generateFFmpegCommand, the validation loop and the argument builders do
RECURSIVE inSeconds(_)
inSeconds(segments) ==
    IF segments = << >> THEN << >>
    ELSE << Seg(timeToSeconds(Head(segments).start), timeToSeconds(Head(segments).end),
                Head(segments).fadeIn, Head(segments).fadeOut) >>
         \o inSeconds(Tail(segments))

InSeconds(cfg) == [cfg EXCEPT !.segments = inSeconds(cfg.segments)]

\* Times typed into a segment row: 0:01, 0:03, a word, and seconds above 59.
TypedTimes ==
    { << "0", ":", "0", "1" >>, << "0", ":", "0", "3" >>,
      << "i", "n", "t", "r", "o" >>, << "0", ":", "7", "5" >> }

TypedSegs == { TextSeg(a, b, FALSE, FALSE) : a \in TypedTimes, b \in TypedTimes }

TypedConfigs ==
    [ videoFile : {TRUE}, audioFile : BOOLEAN,
      segments : UNION { [1..n -> TypedSegs] : n \in 1..(MaxSegments - 1) },
      globalFadeIn : {FALSE}, globalFadeOut : {FALSE}, fadeDuration : {1} ]

\* const command = useMemo(() => generateFFmpegCommand(config), [config])
GenerateTyped ==
    /\ page.shown
    /\ page.out.by = "none"
    /\ page' = [page EXCEPT !.out =
                  [ by |-> "generateFFmpegCommand", err |-> NoError,
                    command |-> generateFFmpegCommand(InSeconds(page.config)) ]]
    /\ TimeFrame

\* process(config) from the probe's result on: the validation loop and, when
\* it throws nothing, the arguments of the first encode
EncodeTyped ==
    /\ page.shown
    /\ page.out.by = "none"
    /\ \E dur \in Durations, hasInputAudio \in BOOLEAN :
         LET cfg == InSeconds(page.config)
             v == Validation(cfg, dur)
         IN  page' = [page EXCEPT !.out =
                        [ by |-> "process", err |-> v.err,
                          command |-> IF v.err # NoError THEN NoOut
                                      ELSE buildProcessingArgs(
                                             cfg, ShouldProcessAudio(cfg, hasInputAudio)) ]]
    /\ TimeFrame

----------------------------------------------------------------------------
(* parseCommand on the characters of the command string *)

\* The characters that end a token outside quotes
SplitChars == {" ", "\n", "\t"}

\* String.prototype.trim on a command string, whose white space is SplitChars
RECURSIVE trimLeft(_)
trimLeft(s) ==
    IF s # << >> /\ Head(s) \in SplitChars THEN trimLeft(Tail(s)) ELSE s

RECURSIVE trimRight(_)
trimRight(s) ==
    IF s # << >> /\ s[Len(s)] \in SplitChars THEN trimRight(SubSeq(s, 1, Len(s) - 1))
    ELSE s

trimWhite(s) == trimRight(trimLeft(s))

startsWith(s, prefix) == Len(s) >= Len(prefix) /\ SubSeq(s, 1, Len(prefix)) = prefix

ProgramName == << "f", "f", "m", "p", "e", "g" >>

DefaultOutputFile == << "o", "u", "t", "p", "u", "t", ".", "m", "p", "4" >>

\* let cmd = command.trimWhite(); if (cmd.startsWith("ffmpeg")) cmd = cmd.slice(6).trimWhite()
stripProgram(command) ==
    LET cmd == trimWhite(command)
    IN  IF startsWith(cmd, ProgramName) THEN trimWhite(SubSeq(cmd, 7, Len(cmd))) ELSE cmd

\* for (const char of cmd) { ... }  if (current) args.push(current)
RECURSIVE scan(_, _, _, _, _, _)
scan(cmd, current, inSingleQuote, inDoubleQuote, escaped, args) ==
    IF cmd = << >> THEN (IF current # << >> THEN Append(args, current) ELSE args)
    ELSE LET char == Head(cmd)
             rest == Tail(cmd)
         IN  IF escaped
             THEN scan(rest, Append(current, char), inSingleQuote, inDoubleQuote, FALSE, args)
             ELSE IF char = "\\"
             THEN scan(rest, current, inSingleQuote, inDoubleQuote, TRUE, args)
             ELSE IF char = "'" /\ ~inDoubleQuote
             THEN scan(rest, current, ~inSingleQuote, inDoubleQuote, FALSE, args)
             ELSE IF char = "\"" /\ ~inSingleQuote
             THEN scan(rest, current, inSingleQuote, ~inDoubleQuote, FALSE, args)
             ELSE IF char \in SplitChars /\ ~inSingleQuote /\ ~inDoubleQuote
             THEN scan(rest, << >>, inSingleQuote, inDoubleQuote, FALSE,
                       IF current # << >> THEN Append(args, current) ELSE args)
             ELSE scan(rest, Append(current, char), inSingleQuote, inDoubleQuote, FALSE, args)

\* parseCommand(command): { args, outputFile }
parseCommand(command) ==
    LET args == scan(stripProgram(command), << >>, FALSE, FALSE, FALSE, << >>)
        last == args[Len(args)]
    IN  [ args |-> args,
          outputFile |-> IF Len(args) > 0 /\ ~startsWith(last, << "-" >>) THEN last
                         ELSE DefaultOutputFile ]

\* Command strings: up to `most` pieces, one after the other.
CommandPieces ==
    { ProgramName, << " " >>, << "\t" >>, << "-", "y" >>, << "a" >>,
      << "'" >>, << "\"" >>, << "\\" >> }

RECURSIVE Flat(_)
Flat(seqs) == IF seqs = << >> THEN << >> ELSE Head(seqs) \o Flat(Tail(seqs))

CommandStrings(most) ==
    UNION { { Flat(p) : p \in [1..n -> CommandPieces] } : n \in 0..most }

\* const { args, outputFile } = parseCommand(command)   (execute, first statement
\* after the guards)
ParseCommand ==
    /\ page.shown
    /\ page.out.by = "none"
    /\ page' = [page EXCEPT !.out = [ by |-> "parseCommand",
                                      parsed |-> parseCommand(page.config) ]]
    /\ TimeFrame

----------------------------------------------------------------------------
(* reset() *)

\* URL.revokeObjectURL(url), as open developer tools see it
Revoked(d, url) == IF ~d.open THEN d ELSE [d EXCEPT !.revoked = @ \cup {url}]

\* Mutant of Reset: the whole hook state goes back to its initial value.
ResetEverything ==
    /\ state.outputUrl # NoUrl
    /\ devtools' = Revoked(devtools, state.outputUrl)
    /\ state' = InitialState
    /\ nResets' = nResets + 1
    /\ UNCHANGED <<hook, env, page, ffmpegRef, engines, loads, jobs, loadCalls>>

\* The reset button is rendered only while an output is shown. The raw hook's
\* reset also clears outputType, a field the primary hook never writes.
Reset ==
    /\ state.outputUrl # NoUrl
    /\ devtools' = Revoked(devtools, state.outputUrl)
    /\ state' = [state EXCEPT !.isProcessing = FALSE, !.progress = 0, !.error = NoError,
                              !.outputUrl = NoUrl,
                              !.outputType = IF hook = "raw" THEN "null" ELSE @]
    /\ nResets' = nResets + 1
    /\ UNCHANGED <<hook, env, page, ffmpegRef, engines, loads, jobs, loadCalls>>

----------------------------------------------------------------------------
(* Specifications *)

Envs == [hasSharedArrayBuffer : BOOLEAN, crossOriginIsolated : BOOLEAN]

\* A job never reads the browser capabilities; the sessions that study jobs
\* run in one single-threaded and one multi-threaded environment.
JobEnvs ==
    { [hasSharedArrayBuffer |-> FALSE, crossOriginIsolated |-> FALSE],
      [hasSharedArrayBuffer |-> TRUE, crossOriginIsolated |-> TRUE] }

InitSession(hooks, envs) ==
    /\ hook \in hooks
    /\ env \in envs
    /\ state = InitialState
    /\ ffmpegRef = 0
    /\ engines = << >>
    /\ loads = << >>
    /\ jobs = << >>
    /\ loadCalls = 0
    /\ nResets = 0

\* A session with the developer tools closed.
InitHook(hooks, envs) == InitSession(hooks, envs) /\ devtools = DevtoolsClosed

\* A hook session on its own: no command page.
InitWith(hooks, envs) == InitHook(hooks, envs) /\ page = NoPage

\* Loading: both hooks, every environment, overlapping load() calls.
InitLoad == InitWith({"primary", "raw"}, Envs)

NextLoad == Load \/ LoadStep

SpecLoad == InitLoad /\ [][NextLoad]_vars

\* The primary clipping job.
InitProcess == InitWith({"primary"}, JobEnvs)

NextProcess == MountEffect \/ LoadStep \/ Process \/ ProcessStep \/ Reset

SpecProcess == InitProcess /\ [][NextProcess]_vars

\* The raw command job.
InitExecute == InitWith({"raw"}, JobEnvs)

NextExecute == MountEffect \/ LoadStep \/ Execute \/ ExecuteStep \/ Reset

SpecExecute == InitExecute /\ [][NextExecute]_vars

\* The primary clipping job on segments at the edges of the validation.
NextSegments == MountEffect \/ LoadStep \/ ProcessEdges \/ ProcessStep \/ Reset

SpecSegments == InitProcess /\ [][NextSegments]_vars

\* The raw command job on commands around the denylist.
NextDenylist == MountEffect \/ LoadStep \/ ExecuteDenylist \/ ExecuteStep \/ Reset

SpecDenylist == InitExecute /\ [][NextDenylist]_vars

\* Synthesis as a function of the config.
InitSynthesis ==
    /\ InitHook({"primary"}, {CHOOSE e \in JobEnvs : ~e.hasSharedArrayBuffer})
    /\ page \in [shown : {TRUE}, config : SynthConfigs, out : {NoOut}]

NextSynthesis == Generate \/ BuildArgs

SpecSynthesis == InitSynthesis /\ [][NextSynthesis]_vars

\* The audio decision of a job and the arguments of its encode attempts.
AudioConfigs ==
    [ videoFile : {TRUE}, audioFile : BOOLEAN, segments : SynthSegLists(MaxSegments - 1),
      globalFadeIn : BOOLEAN, globalFadeOut : BOOLEAN, fadeDuration : {1} ]

InitAudio ==
    /\ InitHook({"primary"}, {CHOOSE e \in JobEnvs : ~e.hasSharedArrayBuffer})
    /\ page \in [shown : {TRUE}, config : AudioConfigs, out : {NoOut}]

NextAudio == Attempts

SpecAudio == InitAudio /\ [][NextAudio]_vars

\* Configs with and without a video file and segments, as the page holds them.
GuardConfigs ==
    [ videoFile : BOOLEAN, audioFile : {FALSE},
      segments : { << >>, << Seg(1, 4, FALSE, FALSE) >> },
      globalFadeIn : {FALSE}, globalFadeOut : {FALSE}, fadeDuration : {1} ]

\* process(config) with or without a video file and segments
ProcessGuards == ProcessCallWith(MaxJobs, GuardConfigs)

\* execute(command, files) with a harmless command
ExecuteGuards ==
    ExecuteCallWith(MaxJobs,
                    { << Arg("-i", {}), Arg("input_video.mp4", {}), Arg("output.mp4", {}) >> },
                    { << >>, << File("input_video.mp4", 1024) >> })

\* The calls a page makes whatever its config and whether or not the engine
\* is loaded: the command preview of the Index page, process(), execute().
InitGuards ==
    /\ InitHook({"primary", "raw"}, JobEnvs)
    /\ page \in IF hook = "primary"
                THEN [shown : {TRUE}, config : GuardConfigs, out : {NoOut}]
                ELSE {NoPage}

NextGuards ==
    \/ MountEffect \/ LoadStep
    \/ Generate
    \/ ProcessGuards \/ ProcessStep
    \/ ExecuteGuards \/ ExecuteStep
    \/ Reset

SpecGuards == InitGuards /\ [][NextGuards]_vars

\* The two synthesis paths of a single segment without fades.
InitPaths ==
    /\ InitHook({"primary"}, {CHOOSE e \in JobEnvs : ~e.hasSharedArrayBuffer})
    /\ page \in [shown : {TRUE}, config : PathConfigs, out : {NoOut}]

NextPaths == Generate \/ BuildPaths

SpecPaths == InitPaths /\ [][NextPaths]_vars

\* The time-string functions on the texts a time field may hold.
InitTimes ==
    /\ InitHook({"primary"}, {CHOOSE e \in JobEnvs : ~e.hasSharedArrayBuffer})
    /\ page \in [shown : {TRUE}, config : TimeTexts, out : {NoOut}]

NextTimes == ValidateTime \/ ParseTime

SpecTimes == InitTimes /\ [][NextTimes]_vars

\* Bulk entry: the editor's text area over a previous segment list.
InitBulk ==
    /\ InitHook({"primary"}, {CHOOSE e \in JobEnvs : ~e.hasSharedArrayBuffer})
    /\ page \in [shown : {TRUE},
                 config : [editText : EditTexts, segments : PreviousLists],
                 out : {NoOut}]

NextBulk == ParseSegments \/ HandleSave

SpecBulk == InitBulk /\ [][NextBulk]_vars

\* Segments with typed times, previewed and encoded.
InitTyped ==
    /\ InitHook({"primary"}, {CHOOSE e \in JobEnvs : ~e.hasSharedArrayBuffer})
    /\ page \in [shown : {TRUE}, config : TypedConfigs, out : {NoOut}]

NextTyped == GenerateTyped \/ EncodeTyped

SpecTyped == InitTyped /\ [][NextTyped]_vars

\* parseCommand as a function of the command string.
InitTokens ==
    /\ InitHook({"raw"}, {CHOOSE e \in JobEnvs : ~e.hasSharedArrayBuffer})
    /\ page \in [shown : {TRUE}, config : CommandStrings(MaxPieces), out : {NoOut}]

NextTokens == ParseCommand

SpecTokens == InitTokens /\ [][NextTokens]_vars

\* Jobs and resets of either hook with the developer tools open: every
\* revoked object URL is seen.
InitReset ==
    /\ InitSession({"primary", "raw"}, {CHOOSE e \in JobEnvs : ~e.hasSharedArrayBuffer})
    /\ page = NoPage
    /\ devtools = [open |-> TRUE, events |-> << >>, revoked |-> {}]

NextReset == MountEffect \/ LoadStep \/ Process \/ ProcessStep \/ Execute \/ ExecuteStep \/ Reset

SpecReset == InitReset /\ [][NextReset]_vars

\* The editor's list under Add, inline edits, toggles and unchanged bulk edits.
InitEditor ==
    /\ InitHook({"primary"}, {CHOOSE e \in JobEnvs : ~e.hasSharedArrayBuffer})
    /\ page = [shown |-> TRUE, config |-> [segments |-> << >>], out |-> NoOut]

NextEditor == AddEmptySegment \/ SaveRow \/ ToggleFade \/ ApplyUnchanged

SpecEditor == InitEditor /\ [][NextEditor]_vars

\* The log stream of either hook under many addLog calls.
InitLogs ==
    /\ InitSession({"primary", "raw"}, {CHOOSE e \in JobEnvs : ~e.hasSharedArrayBuffer})
    /\ page = NoPage
    /\ devtools = [open |-> TRUE, events |-> << >>, clock |-> 0, entries |-> << >>]

NextLogs == AddLog \/ ClearLogsForJob

SpecLogs == InitLogs /\ [][NextLogs]_vars

\* Loading with the developer tools open: every response and console line is
\* seen. The page loads on mount, and load() is called again only once the
\* previous load has settled.
InitObserved(hooks) ==
    /\ InitSession(hooks, Envs)
    /\ page = NoPage
    /\ devtools = [open |-> TRUE, events |-> << >>]

LoadRetry ==
    /\ loadCalls >= 1
    /\ \A i \in 1..Len(loads) : loads[i].pc \in {"done", "failed"}
    /\ LoadCall(MaxLoadCalls, MaxLoads)

NextObserved == MountEffect \/ LoadRetry \/ LoadStep

\* The primary hook's loader (warn-and-continue on a digest mismatch).
InitIntegrity == InitObserved({"primary"})

SpecIntegrity == InitIntegrity /\ [][NextObserved]_vars

\* The raw hook's loader (abort on a digest mismatch).
InitStrict == InitObserved({"raw"})

SpecStrict == InitStrict /\ [][NextObserved]_vars

\* The primary clipping job when every pending promise eventually settles.
SpecProcessFair == SpecProcess /\ WF_vars(ProcessStep)

\* Either hook's jobs, one after another.
InitJobs == InitWith({"primary", "raw"}, JobEnvs)

NextJobs ==
    \/ MountEffect \/ LoadStep
    \/ ProcessAgain \/ ProcessStep
    \/ ExecuteAgain \/ ExecuteStep
    \/ Reset

SpecJobs == InitJobs /\ [][NextJobs]_vars

----------------------------------------------------------------------------
(* Properties *)

JobIds == 1..Len(jobs)

Done(j) == jobs[j].pc = "done"

AudioDroppedNote == "Processing complete! (video only - audio failed)"

InLogs(msg) == \E k \in 1..Len(state.logs) : state.logs[k] = msg

\* A session in which one job ran and nothing else touched its outcome.
OneJobAlone == Len(jobs) = 1 /\ nResets = 0

\* The job's first encode ran with audio and exited non-zero, and the retry
\* exited 0 with a plausible output.
RetrySucceeded(j) == jobs[j].audioFail = "exit" /\ jobs[j].success

\* C1: a primary job whose encode with audio exits non-zero retries without
\* audio exactly once, and if the retry exits 0 with a plausible output the
\* job ends with outputUrl set, error null and a logged note that audio was
\* dropped.
C1_RetryEndsInSuccess ==
    \A j \in JobIds :
        (hook = "primary" /\ OneJobAlone /\ Done(j) /\ RetrySucceeded(j))
        => /\ jobs[j].encodes = <<TRUE, FALSE>>
           /\ state.outputUrl # NoUrl
           /\ state.error = NoError
           /\ InLogs(AudioDroppedNote)

\* The order of encodes a job may issue: at most one with audio, then at most
\* one without.
EncodeOrders == { << >>, <<TRUE>>, <<FALSE>>, <<TRUE, FALSE>> }

EncodeFailures == {"FFmpeg exited with code", "Output file is corrupted or empty"}

EncodeBound ==
    \A j \in JobIds :
        /\ jobs[j].encodes \in EncodeOrders
        /\ jobs[j].pc = "delPartial" => jobs[j].encodes = <<TRUE>>
        /\ jobs[j].caught \in EncodeFailures
             => /\ Done(j)
                /\ jobs[j].encodes # << >>
                /\ ~jobs[j].encodes[Len(jobs[j].encodes)]

\* C2: when every engine operation eventually settles, every started primary
\* job terminates; it issues at most two encodes (at most one with audio, then
\* at most one without), and an audio-less attempt that fails by exit status
\* or by a too-small output ends the job in failure with no further encode.
C2_JobTerminates ==
    /\ []EncodeBound
    /\ \A j \in 1..MaxJobs : (Len(jobs) >= j) ~> (Len(jobs) >= j /\ jobs[j].pc = "done")

C2_Witness ==
    \E j \in JobIds :
        /\ Done(j)
        /\ jobs[j].encodes = <<TRUE, FALSE>>
        /\ jobs[j].caught \in EncodeFailures

PrimaryEntries == {"input.mp4", "input_audio", "output.mp4"}

\* C3: after a primary job concludes, in success or in failure, none of the
\* entries it created (input.mp4, input_audio, output.mp4) remains in the
\* engine's virtual filesystem.
C3_PrimaryEntriesRemoved ==
    \A j \in JobIds :
        (hook = "primary" /\ Done(j))
        => engines[jobs[j].inst].files \cap PrimaryEntries = {}

RawEntries(j) == {jobs[j].files[k].name : k \in 1..Len(jobs[j].files)} \cup {jobs[j].outputFile}

\* C4: after a raw command job concludes, whatever its outcome, every input
\* it uploaded and the output entry have been removed from the virtual
\* filesystem.
C4_RawEntriesRemoved ==
    \A j \in JobIds :
        (hook = "raw" /\ Done(j))
        => engines[jobs[j].inst].files \cap RawEntries(j) = {}

\* C5: once a job has concluded, exactly one of outputUrl and error is set.
C5_OutcomeDefinite ==
    (jobs # << >> /\ nResets = 0 /\ \A j \in JobIds : Done(j))
    => ((state.outputUrl # NoUrl) # (state.error # NoError))

\* The engine operations in flight against instance e: the awaited ones, and
\* the execs abandoned by the timeout race that have not settled yet.
InFlight(e) ==
    Cardinality({j \in JobIds : jobs[j].inst = e /\ (jobs[j].pc \in EnginePcs \/
                                                       (hook = "raw" /\ jobs[j].bg))})

\* C6: at no time are two engine operations in flight against the same
\* engine instance.
C6_OneOperationInFlight == \A e \in 1..Len(engines) : InFlight(e) <= 1

\* C7: one engine instance per session: load() never constructs a second
\* one, and the instance the hook holds is the one that gets loaded.
C7_SingleInstance ==
    /\ Len(engines) <= 1
    /\ state.loadPhase = "ready" => (ffmpegRef # 0 /\ engines[ffmpegRef].loaded)

\* C8: load() called while the held instance is loaded is a no-op: no fetch,
\* no new instance, no log entry, and isLoading, loadProgress, loadPhase,
\* isMultiThreaded and error unchanged.
C8_LoadWhenReadyIsNoop ==
    [][ (loadCalls' = loadCalls + 1 /\ ffmpegRef # 0 /\ engines[ffmpegRef].loaded)
        => UNCHANGED <<state, ffmpegRef, engines, loads, jobs>> ]_vars

C8_Witness ==
    /\ ffmpegRef # 0 /\ engines[ffmpegRef].loaded
    /\ loadCalls > Len(loads)

\* The messages a load can fail with while it awaits the promise of phase pc.
LoadErrors(pc) ==
    CASE pc = "core" -> {FetchError(o, "ffmpeg-core.js") : o \in FetchOutcomes}
      [] pc = "wasm" -> {FetchError(o, "ffmpeg-core.wasm") : o \in FetchOutcomes}
      [] pc = "worker" -> {FetchError(o, "ffmpeg-core.worker.js") : o \in FetchOutcomes}
      [] OTHER -> {"Failed to load FFmpeg"}

\* C9: a failure at any phase of load() aborts that load: the state is back at
\* loadPhase idle, isLoading false, loadProgress 0, error the underlying
\* message; the load never goes on to ready and its instance is not loaded.
C9_LoadFailureAborts ==
    [][ \A i \in 1..Len(loads) :
          /\ (loads[i].pc # "failed" /\ loads'[i].pc = "failed")
               => /\ state'.loadPhase = "idle"
                  /\ ~state'.isLoading
                  /\ state'.loadProgress = 0
                  /\ state'.error \in LoadErrors(loads[i].pc)
                  /\ ~engines'[loads[i].inst].loaded
          /\ loads[i].pc = "failed"
               => /\ loads'[i].pc = "failed"
                  /\ ~engines'[loads[i].inst].loaded ]_vars

C9_Witness ==
    \E i \in 1..Len(loads) :
        /\ loads[i].pc = "failed"
        /\ state.error = "Failed to load FFmpeg"
        /\ state.loadPhase = "idle"

\* C10: while loading, loadProgress never decreases from one state update to
\* the next, and loadProgress is 100 only when loadPhase is ready.
C10_ProgressMonotonic ==
    [][ /\ (state.isLoading /\ state'.isLoading)
             => state'.loadProgress >= state.loadProgress
        /\ state'.loadProgress = 100 => state'.loadPhase = "ready" ]_vars

\* The latest job: the log stream was cleared when it started.
Latest == Len(jobs)

\* What the probe of the latest job yielded (0: no duration parsed, or not
\* probed yet); the hook logs the duration exactly when it parsed one.
ProbedDuration ==
    IF InLogs("Video duration") THEN CHOOSE d \in Durations : d > 0 ELSE 0

ValidationErrors ==
    {"Segment start time is beyond video duration", "Invalid segment: start must be before end"}

ClampWarning == "warn: segment end exceeds video duration"

StartBeyond(segs, d) == \E k \in 1..Len(segs) : segs[k].start >= d

EndBeyond(segs, d) == \E k \in 1..Len(segs) : segs[k].end > d

Ordered(segs) == \A k \in 1..Len(segs) : segs[k].end > segs[k].start

\* C11: once the probe has yielded the duration, a segment starting at or
\* beyond it has aborted the job with a validation error and no encode was
\* issued; a segment that only ends beyond it logged a warning and the job
\* went on towards the encode.
C11_BoundsValidatedBeforeEncode ==
    (hook = "primary" /\ jobs # << >> /\ ProbedDuration > 0)
    => LET job == jobs[Latest]
           segs == job.cfg.segments
           d == ProbedDuration
       IN  /\ StartBeyond(segs, d)
                => /\ job.pc = "done"
                   /\ job.caught \in ValidationErrors
                   /\ InLogs("error: " \o job.caught)
                   /\ job.encodes = << >>
           /\ (~StartBeyond(segs, d) /\ Ordered(segs) /\ EndBeyond(segs, d))
                => /\ InLogs(ClampWarning)
                   /\ job.caught \notin ValidationErrors
                   /\ job.encodes # << >>

C11_Witness ==
    /\ hook = "primary" /\ jobs # << >> /\ ProbedDuration > 0
    /\ StartBeyond(jobs[Latest].cfg.segments, ProbedDuration)
    /\ Len(jobs[Latest].cfg.segments) = 2
    /\ jobs[Latest].caught = "Segment start time is beyond video duration"

\* C12: no encode is ever issued for a job holding a segment whose end is not
\* strictly greater than its start, whatever the probe yielded.
C12_OrderedBeforeEncode ==
    \A j \in JobIds :
        (hook = "primary" /\ jobs[j].encodes # << >>) => Ordered(jobs[j].cfg.segments)

\* The page holds the result of a synthesis that built the general filter graph.
HasGraph == page.shown /\ page.out.by # "none" /\ page.out.filterComplex # << >>

\* Whether that synthesis produced audio chains.
AudioProduced == page.out.by = "generateFFmpegCommand" \/ page.out.audio

Concats(g) == {p \in 1..Len(g) : g[p].node = "concat"}

\* C18: for N >= 1 segments and every assignment of fade flags, the general
\* filter graph holds exactly one concat node, with n = N, whose inputs are
\* the labels [v0][a0] ... [v(N-1)][a(N-1)] (only [v_i] when no audio is
\* produced) of the chains cut from the segments in their original order.
C18_ConcatTakesAllInOrder ==
    HasGraph =>
      LET g == page.out.filterComplex
          segs == page.config.segments
          N == Len(segs)
          c == g[Len(g)]
      IN  /\ Concats(g) = {Len(g)}
          /\ c.n = N
          /\ Len(c.ins) = IF AudioProduced THEN 2 * N ELSE N
          /\ \A i \in 0..(N - 1) :
               /\ g[i + 1].node = "trim" /\ g[i + 1].out = << <<"v", i>> >>
               /\ g[i + 1].start = segs[i + 1].start /\ g[i + 1].end = segs[i + 1].end
               /\ IF AudioProduced
                  THEN /\ c.ins[2 * i + 1] = <<"v", i>> /\ c.ins[2 * i + 2] = <<"a", i>>
                       /\ g[N + i + 1].node = "atrim" /\ g[N + i + 1].out = << <<"a", i>> >>
                       /\ g[N + i + 1].start = segs[i + 1].start
                       /\ g[N + i + 1].end = segs[i + 1].end
                  ELSE c.ins[i + 1] = <<"v", i>>

C18_Witness ==
    /\ HasGraph
    /\ Len(page.config.segments) = 3
    /\ page.config.segments[2].fadeIn /\ ~page.config.segments[1].fadeIn
    /\ page.out.by = "buildComplexArgs" /\ ~page.out.audio

\* The chains of a graph: every node but the concat.
Chains(g) == {p \in 1..Len(g) : g[p].node # "concat"}

FadesOf(chain, t) == {k \in 1..Len(chain.fades) : chain.fades[k].t = t}

\* C19: every fade-out node, video or audio, starts at
\* max(0, (end - start) - fadeDuration), which is never negative, also when
\* the fade is as long as or longer than the segment.
C19_FadeOutOffsetClamped ==
    HasGraph =>
      LET g == page.out.filterComplex
          fd == page.config.fadeDuration
      IN  \A p \in Chains(g) : \A k \in FadesOf(g[p], "out") :
            LET st == g[p].fades[k].st
                duration == g[p].end - g[p].start
            IN  /\ st >= 0
                /\ st = IF duration - fd > 0 THEN duration - fd ELSE 0
                /\ g[p].fades[k].d = fd

\* fadeDuration 2 on a segment of duration 1 with fadeOut: the offset is 0
C19_Witness ==
    /\ HasGraph
    /\ page.config.fadeDuration = 2
    /\ \E p \in Chains(page.out.filterComplex) :
         LET ch == page.out.filterComplex[p]
         IN  /\ ch.end - ch.start = 1
             /\ FadesOf(ch, "out") # {}
             /\ \A k \in FadesOf(ch, "out") : ch.fades[k].st = 0

\* C20: segment i gets a fade-in node iff its fadeIn is set or it is the first
\* segment and globalFadeIn is set, and a fade-out node iff its fadeOut is set
\* or it is the last segment and globalFadeOut is set; in the video chain and,
\* when audio is produced, in the audio chain.
C20_FadePlacement ==
    HasGraph =>
      LET g == page.out.filterComplex
          cfg == page.config
          N == Len(cfg.segments)
          wantsIn(i) == cfg.segments[i + 1].fadeIn \/ (i = 0 /\ cfg.globalFadeIn)
          wantsOut(i) == cfg.segments[i + 1].fadeOut \/ (i = N - 1 /\ cfg.globalFadeOut)
          placed(ch, i) == /\ Cardinality(FadesOf(ch, "in")) = IF wantsIn(i) THEN 1 ELSE 0
                           /\ Cardinality(FadesOf(ch, "out")) = IF wantsOut(i) THEN 1 ELSE 0
      IN  \A i \in 0..(N - 1) :
            /\ placed(g[i + 1], i)
            /\ AudioProduced => placed(g[N + i + 1], i)

\* globalFadeIn with 3 unflagged segments: only segment 0 fades in
C20_Witness ==
    /\ HasGraph
    /\ Len(page.config.segments) = 3
    /\ page.config.globalFadeIn
    /\ \A k \in 1..3 : ~page.config.segments[k].fadeIn
    /\ FadesOf(page.out.filterComplex[1], "in") # {}
    /\ FadesOf(page.out.filterComplex[2], "in") = {}
    /\ FadesOf(page.out.filterComplex[3], "in") = {}

Protocols == {BLOCKED_PROTOCOLS[k] : k \in 1..Len(BLOCKED_PROTOCOLS)}

FileReaders == {BLOCKED_FILTERS[k] : k \in 1..Len(BLOCKED_FILTERS)}

\* The denylisted items of a command: the schemes its tokens contain, and the
\* file-reading filters that the value after a filter flag mentions.
Offences(args) ==
    UNION {args[i].includes \cap Protocols : i \in 1..Len(args)}
    \cup UNION {args[i + 1].includes \cap FileReaders :
                  i \in {k \in 1..(Len(args) - 1) : args[k].text \in FilterFlags}}

NamesOffence(msg, args) ==
    \E x \in Offences(args) : msg \in {"Blocked: protocol " \o x, "Blocked: filter " \o x}

\* What ends a job while it uploads its inputs, before validateArgs runs.
UploadFailures(j) ==
    {"fetchFile failed", "engine error"}
    \cup {"File exceeds the size limit: " \o jobs[j].files[k].name : k \in 1..Len(jobs[j].files)}

C14_TimeoutAbandonsExec ==
    [][\A j \in 1..Len(jobs) :
         /\ (hook = "raw" /\ jobs[j].pc = "exec"
               /\ jobs[j].timer = "pending" /\ jobs'[j].timer = "fired")
            => /\ jobs'[j].pc = "done" /\ ~jobs'[j].success
               /\ jobs'[j].outSize = NotRead
               /\ jobs'[j].caught = TimeoutMessage
               /\ jobs'[j].caught \notin {"FFmpeg exited with code", "engine error"}
               /\ state'.error = TimeoutMessage
               /\ ~state'.isProcessing
               /\ state'.outputUrl = NoUrl
         /\ (hook = "raw" /\ jobs[j].caught = TimeoutMessage)
            => /\ jobs'[j] = [jobs[j] EXCEPT !.bg = jobs'[j].bg]
               /\ (jobs[j].bg /\ ~jobs'[j].bg) => state' = state
      ]_vars

C14_Witness ==
    \E j \in JobIds :
        /\ hook = "raw" /\ Done(j)
        /\ jobs[j].caught = TimeoutMessage /\ jobs[j].timer = "fired"
        /\ ~jobs[j].bg
        /\ jobs[j].outputFile \in engines[jobs[j].inst].files
        /\ state.error = TimeoutMessage /\ state.outputUrl = NoUrl

\* The input files of job j that are larger than the ceiling.
Oversized(j) ==
    {k \in 1..Len(jobs[j].files) : jobs[j].files[k].size > MAX_FILE_SIZE}

\* C15: a raw job never gets as far as fetching or writing an input file that
\* is larger than MAX_FILE_SIZE: the name of such a file is never in the
\* engine's filesystem, the job issues no exec and no read, never succeeds,
\* and ends with an error (the size error, or the failed upload of an earlier
\* file); no file within MAX_FILE_SIZE is refused for its size.
C15_OversizedNeverWritten ==
    \A j \in JobIds :
        hook = "raw"
        => /\ jobs[j].pc \in {"fetchFile", "writeFile"} => jobs[j].k \notin Oversized(j)
           /\ \A k \in Oversized(j) :
                /\ jobs[j].files[k].name \notin engines[jobs[j].inst].files
                /\ jobs[j].execs = 0
                /\ jobs[j].outSize = NotRead /\ ~jobs[j].success
                /\ jobs[j].pc \in {"fetchFile", "writeFile", "done"}
                /\ Done(j) => jobs[j].caught \in UploadFailures(j)
                /\ (Done(j) /\ k = 1)
                     => jobs[j].caught = "File exceeds the size limit: " \o jobs[j].files[k].name
           /\ jobs[j].caught \in {"File exceeds the size limit: " \o jobs[j].files[k].name :
                                    k \in 1..Len(jobs[j].files)}
                => Oversized(j) # {}

C15_Witness ==
    \E j \in JobIds :
        /\ hook = "raw" /\ Done(j)
        /\ Oversized(j) = {2}
        /\ jobs[j].caught = "File exceeds the size limit: input_audio.mp3"
        /\ engines[jobs[j].inst].files = {jobs[j].files[1].name}
        /\ state.error = jobs[j].caught /\ ~state.isProcessing

\* C16: in the raw job exec is invoked at most once; a job that has caught an
\* error is done, has not succeeded and never does anything more (no further
\* exec, no read, no change of its outcome); a job that ended on a non-zero
\* exit status has read no output; an output that was read and is shorter
\* than 100 bytes ends the job in failure, and a successful job has read at
\* least 100 bytes.
C16_RawFailureTerminal ==
    [][\A j \in 1..Len(jobs') :
         hook = "raw"
         => /\ jobs'[j].execs <= 1
            /\ jobs'[j].caught # NoError => (jobs'[j].pc = "done" /\ ~jobs'[j].success)
            /\ jobs'[j].caught = "FFmpeg exited with code"
                 => (jobs'[j].execs = 1 /\ jobs'[j].outSize = NotRead)
            /\ (jobs'[j].outSize # NotRead /\ jobs'[j].outSize < 100)
                 => /\ jobs'[j].pc = "done" /\ ~jobs'[j].success
                    /\ jobs'[j].caught = "Output file is empty or corrupted"
            /\ jobs'[j].success
                 => (jobs'[j].outSize >= 100 /\ jobs'[j].caught = NoError)
            /\ (j <= Len(jobs) /\ jobs[j].caught # NoError)
                 => jobs'[j] = [jobs[j] EXCEPT !.timer = jobs'[j].timer,
                                               !.bg = jobs'[j].bg]
      ]_vars

C16_Witness ==
    \E j \in JobIds :
        /\ hook = "raw" /\ Done(j)
        /\ jobs[j].execs = 1 /\ jobs[j].outSize = 99
        /\ jobs[j].caught = "Output file is empty or corrupted"
        /\ state.error = jobs[j].caught /\ state.outputUrl = NoUrl

GuardErrors ==
    {"Please add a video file and at least one segment", "FFmpeg not loaded"}

\* A step in which no job starts or moves, no load moves and nothing is reset.
NoOperation ==
    UNCHANGED <<jobs, loads, loadCalls, nResets, engines, ffmpegRef>>

\* C17: a call of process() or execute() that starts no job only sets error
\* to one of the two guard messages: isProcessing, outputUrl, logs and every
\* other field stay as they were and no engine operation is issued; "FFmpeg
\* not loaded" is set only while no loaded engine is held; a job is started
\* only with a video file, a non-empty segment list (process) and a loaded
\* engine; the command preview of a config without video file or segments is
\* the sentinel string, with no graph, and of any other config is a command.
C17_GuardsReturnError ==
    [][/\ (NoOperation /\ state' # state)
          => /\ state'.error \in GuardErrors
             /\ state' = [state EXCEPT !.error = state'.error]
             /\ state'.error = "FFmpeg not loaded" => ~Loaded(ffmpegRef)
             /\ state'.error = "Please add a video file and at least one segment"
                  => hook = "primary"
             /\ page' = page
       /\ Len(jobs') > Len(jobs)
          => /\ Loaded(ffmpegRef)
             /\ state'.isProcessing /\ state'.error = NoError
             /\ hook = "primary"
                  => LET cfg == jobs'[Len(jobs')].cfg
                     IN  cfg.videoFile /\ Len(cfg.segments) > 0
       /\ page' # page
          => /\ state' = state /\ NoOperation /\ UNCHANGED jobs
             /\ page'.out.by = "generateFFmpegCommand"
             /\ (~page.config.videoFile \/ Len(page.config.segments) = 0)
                  => (page'.out.text = Sentinel /\ page'.out.filterComplex = << >>)
             /\ (page.config.videoFile /\ Len(page.config.segments) > 0)
                  => (page'.out.text # Sentinel /\ page'.out.filterComplex # << >>)
      ]_vars

C17_Witness ==
    /\ hook = "primary"
    /\ Loaded(ffmpegRef)
    /\ jobs = << >>
    /\ state.error = "Please add a video file and at least one segment"
    /\ ~state.isProcessing /\ state.outputUrl = NoUrl
    /\ page.shown /\ page.out.by = "generateFFmpegCommand"
    /\ page.out.text = Sentinel

\* C21: for one segment with no fade of any kind, buildSimpleArgs and
\* buildComplexArgs describe the same output for the same segment, the same
\* overlay-audio presence and the same withAudio flag: same time range, same
\* video source, same audio source or absence of audio, same encode
\* parameters and output file name.
C21_PathsInterchangeable ==
    (page.shown /\ page.out.by = "paths")
    => page.out.simple = page.out.complex

\* The two paths agree on everything but the audio source.
PathsAgreeButAudio ==
    (page.shown /\ page.out.by = "paths")
    => [page.out.simple EXCEPT !.audio = "any"] = [page.out.complex EXCEPT !.audio = "any"]

\* The strings of the forms H:MM:SS, MM:SS and bare integer: one to three
\* components of digits, every component after the first of two digits and
\* below 60, the first of any length.
TimeForm(s) ==
    LET parts == split(s)
    IN  /\ Len(parts) \in 1..3
        /\ \A k \in 1..Len(parts) : parts[k] # << >> /\ AllDigits(parts[k])
        /\ \A k \in 2..Len(parts) : Len(parts[k]) = 2 /\ Number(parts[k]) < 60

\* h*3600 + m*60 + s, m*60 + s or s
TimeValue(s) ==
    LET parts == split(s)
        n == Len(parts)
    IN  IF n = 3 THEN Number(parts[1]) * 3600 + Number(parts[2]) * 60 + Number(parts[3])
        ELSE IF n = 2 THEN Number(parts[1]) * 60 + Number(parts[2])
        ELSE Number(parts[1])

\* C22: isValidTimeString accepts exactly the strings (surrounding blanks
\* aside) of the forms H:MM:SS, MM:SS and bare integer whose minutes and
\* seconds are below 60, whatever the size of the leading component, and
\* timeToSeconds returns h*3600+m*60+s, m*60+s or s for every such string.
C22_TimeStringsAccepted ==
    /\ (page.shown /\ page.out.by = "isValidTimeString")
       => (page.out.valid <=> TimeForm(trimWhite(page.config)))
    /\ (page.shown /\ page.out.by = "timeToSeconds" /\ TimeForm(trimWhite(page.config)))
       => page.out.seconds = TimeValue(trimWhite(page.config))

\* A piece without the words before its first and after its last digit.
RECURSIVE DropWords(_)
DropWords(piece) ==
    IF piece # << >> /\ ~IsDigit(Head(piece)) THEN DropWords(Tail(piece))
    ELSE IF piece # << >> /\ ~IsDigit(piece[Len(piece)])
    THEN DropWords(SubSeq(piece, 1, Len(piece) - 1))
    ELSE piece

\* A piece of the form <time> <dash> <time>: one dash, with a valid time
\* string on either side of it (blanks around the dash and words around the
\* range allowed).
RangeForm(piece) ==
    LET p == DropWords(piece)
        at == {k \in 1..Len(p) : p[k] \in Dashes}
        d == CHOOSE k \in at : TRUE
    IN  /\ Cardinality(at) = 1
        /\ isValidTimeString(SubSeq(p, 1, d - 1))
        /\ isValidTimeString(SubSeq(p, d + 1, Len(p)))

\* The segment a piece of that form stands for.
RangeOf(piece) ==
    LET p == DropWords(piece)
        d == CHOOSE k \in 1..Len(p) : p[k] \in Dashes
    IN  TextSeg(trimWhite(SubSeq(p, 1, d - 1)), trimWhite(SubSeq(p, d + 1, Len(p))), FALSE, FALSE)

RECURSIVE RangesOf(_)
RangesOf(pieces) ==
    IF pieces = << >> THEN << >>
    ELSE (IF RangeForm(Head(pieces)) THEN << RangeOf(Head(pieces)) >> ELSE << >>)
         \o RangesOf(Tail(pieces))

\* C23: parseTimeSegments yields, in input order, exactly one segment for
\* every piece (between newlines, commas and semicolons) of the form
\* <time> <dash> <time>, with the two times as start and end and both fade
\* flags false, and nothing for any other piece.
C23_OneSegmentPerRange ==
    (page.shown /\ page.out.by = "parseTimeSegments")
    => page.out.segments = RangesOf(Lines(page.config.editText))

SamePair(a, b) == a.start = b.start /\ a.end = b.end

\* The positions in list whose segment has the (start, end) pair of seg.
PairAt(list, seg) == {k \in 1..Len(list) : SamePair(list[k], seg)}

\* C24: after handleSave every new segment whose (start, end) pair was not
\* in the previous list has both fade flags false, and the new segments with
\* a pair that was in the previous list keep the flags set on that pair: the
\* first new segment with the pair those of the first previous segment with
\* it, the second those of the second, and so on while previous segments with
\* the pair remain; wherever the segments stand in either list.
C24_FadesKeptByValue ==
    (page.shown /\ page.out.by = "handleSave")
    => LET old == page.config.segments
           new == page.out.segments
       IN  \A n \in 1..Len(new) :
             LET before == PairAt(old, new[n])
                 nth == Cardinality({m \in PairAt(new, new[n]) : m <= n})
             IN  /\ before = {}
                      => (~new[n].fadeIn /\ ~new[n].fadeOut)
                 /\ nth <= Cardinality(before)
                      => LET k == CHOOSE i \in before :
                                     Cardinality({m \in before : m <= i}) = nth
                         IN  /\ new[n].fadeIn = old[k].fadeIn
                             /\ new[n].fadeOut = old[k].fadeOut

\* The same for previous lists in which no two segments share a pair.
FadesKeptWithoutDuplicates ==
    (page.shown /\ page.out.by = "handleSave"
       /\ \A a, b \in 1..Len(page.config.segments) :
            SamePair(page.config.segments[a], page.config.segments[b]) => a = b)
    => C24_FadesKeptByValue

\* The events the open developer tools recorded for load i.
Events(i) ==
    IF devtools.open /\ i <= Len(devtools.events) THEN devtools.events[i] ELSE << >>

Mismatches(i) ==
    {q \in 1..Len(Events(i)) :
       Events(i)[q].kind = "fetch" /\ Events(i)[q].outcome = "mismatch"}

Inits(i) == {p \in 1..Len(Events(i)) : Events(i)[p].kind = "init"}

WarnedAt(i, key) ==
    {r \in 1..Len(Events(i)) : Events(i)[r].kind = "warn" /\ Events(i)[r].key = key}

\* C25: in the primary hook every fetched resource whose digest differs from
\* the pinned one is followed at once by a warning naming that resource, so
\* that whenever ffmpeg.load is invoked with the handles of a load, every
\* mismatched resource of that load has been warned about before.
C25_MismatchWarnedBeforeInit ==
    hook = "primary"
    => \A i \in 1..Len(loads) :
         /\ \A q \in Mismatches(i) :
              /\ q + 1 \in WarnedAt(i, Events(i)[q].key)
              /\ Events(i)[q + 1].outcome = "Hash mismatch for " \o Events(i)[q].key
         /\ \A p \in Inits(i), q \in Mismatches(i) :
              q < p => \E r \in WarnedAt(i, Events(i)[q].key) : q < r /\ r < p

C25_Witness ==
    /\ hook = "primary"
    /\ \E i \in 1..Len(loads) :
         /\ loads[i].pc = "done" /\ engines[loads[i].inst].loaded
         /\ Inits(i) # {}
         /\ \E q \in Mismatches(i) :
              Events(i)[q].key = "ffmpeg-core.wasm" /\ WarnedAt(i, Events(i)[q].key) # {}

\* C26: in the raw hook a load in which a fetched resource mismatches its
\* digest has failed: that fetch is the last thing the load did (no later
\* fetch, no ffmpeg.load), its engine never becomes loaded, and the step that
\* sees the mismatch puts the state back to idle (not loading, progress 0)
\* with the integrity error naming the resource.
C26_MismatchAbortsLoad ==
    [][hook = "raw"
       => \A i \in 1..Len(loads') :
            Mismatches(i)' # {}
            => /\ loads'[i].pc = "failed"
               /\ Mismatches(i)' = {Len(Events(i)')}
               /\ Inits(i)' = {}
               /\ ~engines'[loads'[i].inst].loaded
               /\ Mismatches(i) = {}
                    => /\ state'.loadPhase = "idle"
                       /\ ~state'.isLoading /\ state'.loadProgress = 0
                       /\ state'.error = "Security error: integrity check failed for "
                                         \o Events(i)'[Len(Events(i)')].key
                                         \o ". Aborting load."
      ]_vars

C26_Witness ==
    /\ hook = "raw"
    /\ \E i \in 1..Len(loads) :
         /\ loads[i].pc = "failed"
         /\ Len(Events(i)) = 2
         /\ Mismatches(i) = {2}
         /\ Events(i)[2].key = "ffmpeg-core.wasm"
         /\ loads[i].mt
         /\ state.loadPhase = "idle"
         /\ state.error = "Security error: integrity check failed for ffmpeg-core.wasm. Aborting load."

\* The place of a job's pending operation in the order of steps: writing the
\* inputs (1), probe and segment validation (2), encode and retry (3),
\* reading the output (4), cleanup (5), finished (6). audioWrite is the place
\* given to the overlay audio's fetchFile and writeFile.
StepRank(pc, audioWrite) ==
    CASE pc \in {"fetchVideo", "writeVideo"} -> 10
      [] pc \in {"fetchAudio", "writeAudio"} -> audioWrite
      [] pc = "probe" -> 20
      [] pc \in {"encode", "delPartial"} -> 30
      [] pc = "read" -> 40
      [] pc \in {"cleanInput", "cleanAudio", "cleanOutput"} -> 50
      [] OTHER -> 60

\* A job never steps to an earlier place, but for the conditional retry that
\* follows the reading of an output found too small.
InOrder(audioWrite) ==
    \A j \in 1..Len(jobs) :
      j <= Len(jobs')
      => \/ StepRank(jobs[j].pc, audioWrite) <= StepRank(jobs'[j].pc, audioWrite)
         \/ jobs[j].pc = "read" /\ jobs'[j].pc = "delPartial"

\* C27: in a primary job the steps follow one another in the order write
\* inputs (primary media and overlay audio), probe, validation, encode,
\* retry, read output, cleanup; the overlay audio is written with the inputs,
\* before the probe.
C27_StepsInOrder == [][hook = "primary" => InOrder(10)]_vars

\* The order the steps do keep: the overlay audio is written after the probe
\* and the segment validation and before the first encode.
StepsInOrderAudioAfterProbe == [][hook = "primary" => InOrder(25)]_vars

\* The step of job j in which the output read back is found below the byte
\* threshold: the warning is the last log line but one.
TooSmallSeen(j) ==
    /\ jobs[j].pc = "read" /\ jobs'[j] # jobs[j]
    /\ Len(state'.logs) >= 2
    /\ state'.logs[Len(state'.logs) - 1] = "warn: Output file is too small"

\* C28: when an encode that included audio exits 0 and its output is found
\* below the byte threshold, the job goes on to delete the partial output
\* with audio forced off, having issued no further exec; when the deletion
\* settles, resolved or rejected, the one retry is issued, without audio.
C28_SmallOutputRetriesWithoutAudio ==
    [][hook = "primary"
       => \A j \in 1..Len(jobs) :
            j <= Len(jobs')
            => /\ (TooSmallSeen(j) /\ jobs[j].attemptWithAudio)
                  => /\ jobs'[j].pc = "delPartial"
                     /\ ~jobs'[j].attemptWithAudio
                     /\ jobs[j].encodes = <<TRUE>> /\ jobs'[j].encodes = <<TRUE>>
                     /\ jobs'[j].caught = NoError
                     /\ engines' = engines
               /\ (jobs[j].pc = "delPartial" /\ jobs[j].audioFail = "small"
                   /\ jobs'[j] # jobs[j])
                  => /\ jobs'[j].pc = "encode"
                     /\ jobs'[j].encodes = <<TRUE, FALSE>>
                     /\ ~jobs'[j].attemptWithAudio
                     /\ jobs'[j].caught = NoError
                     /\ \/ engines' = engines
                        \/ engines' = [engines EXCEPT ![jobs[j].inst] =
                                         DeleteFile(@, "output.mp4")]
                     /\ state'.error = state.error
                     /\ state'.isProcessing = state.isProcessing
      ]_vars

\* The retry after a too small output is running although the deletion of the
\* partial output was rejected.
C28_Witness ==
    /\ hook = "primary"
    /\ \E j \in JobIds :
         /\ jobs[j].audioFail = "small"
         /\ jobs[j].pc = "encode"
         /\ jobs[j].encodes = <<TRUE, FALSE>>
         /\ "output.mp4" \in engines[jobs[j].inst].files
         /\ InLogs("warn: Output file is too small")
         /\ InLogs("Processing without audio...")

Loading(i) == loads[i].pc \notin {"done", "failed"}

\* The phase changes of a load that goes well: core, wasm, worker only with
\* multithreading, ready.
PhaseSteps(mt) ==
    {<<"core", "wasm">>}
    \cup (IF mt THEN {<<"wasm", "worker">>, <<"worker", "ready">>}
          ELSE {<<"wasm", "ready">>})

\* While a load is in flight and does not fail, loadPhase stays or moves one
\* phase forward.
PhasesInOrder ==
    \A i \in 1..Len(loads) :
      (Loading(i) /\ loads'[i].pc # "failed")
      => \/ state'.loadPhase = state.loadPhase
         \/ <<state.loadPhase, state'.loadPhase>> \in PhaseSteps(loads[i].mt)

FetchedKeys(i) ==
    {Events(i)[q].key : q \in {q \in 1..Len(Events(i)) : Events(i)[q].kind = "fetch"}}

\* Multithreading is what supportsMultiThreading detected; only a load with
\* multithreading waits for, and fetches, the worker; a finished load is
\* ready; and ffmpeg.load was given the worker handle exactly with
\* multithreading.
WorkerOnlyMultiThreaded ==
    \A i \in 1..Len(loads) :
      /\ loads[i].mt = supportsMultiThreading
      /\ loads[i].pc = "worker" => loads[i].mt
      /\ (loads[i].pc = "done" /\ i = Len(loads)) => state.loadPhase = "ready"
      /\ devtools.open
         => /\ "ffmpeg-core.worker.js" \in FetchedKeys(i) => loads[i].mt
            /\ \A p \in Inits(i) :
                 /\ {"ffmpeg-core.js", "ffmpeg-core.wasm"} \subseteq FetchedKeys(i)
                 /\ "ffmpeg-core.worker.js" \in FetchedKeys(i) <=> loads[i].mt
                 /\ Events(i)[p].handles =
                      {"coreURL", "wasmURL"}
                      \cup (IF loads[i].mt THEN {"workerURL"} ELSE {})

\* C29: a load that goes well passes through the phases core, wasm, (worker),
\* ready in this order, skipping none and never going back; the worker phase
\* is entered, the worker fetched and its handle passed to ffmpeg.load exactly
\* when multithreading was detected, and a load without it still gets ready.
C29_PhasesInOrder == [][PhasesInOrder /\ WorkerOnlyMultiThreaded']_vars

\* A load without multithreading that got ready, having fetched no worker.
SingleThreadedReady ==
    /\ ~supportsMultiThreading
    /\ \E i \in 1..Len(loads) :
         /\ loads[i].pc = "done" /\ engines[loads[i].inst].loaded
         /\ state.loadPhase = "ready"
         /\ FetchedKeys(i) = {"ffmpeg-core.js", "ffmpeg-core.wasm"}

Labels(seq) == {seq[k] : k \in 1..Len(seq)}

AudioChains(args) ==
    {k \in 1..Len(args.filterComplex) : args.filterComplex[k].node = "atrim"}

ConcatNodes(args) ==
    {k \in 1..Len(args.filterComplex) : args.filterComplex[k].node = "concat"}

\* An attempt without audio: no audio sub-chain, concat with a=0, [outa] not
\* mapped (the simplified path builds no graph and passes -an).
VideoOnly(args) ==
    /\ ~args.audio
    /\ AudioChains(args) = {}
    /\ \A k \in ConcatNodes(args) :
         /\ args.filterComplex[k].a = 0
         /\ Label("outa", 0) \notin Labels(args.filterComplex[k].out)
    /\ Label("outa", 0) \notin Labels(args.maps)

\* An attempt with audio: with a graph, one audio sub-chain per segment, concat
\* with a=1 and [outa] mapped.
WithAudio(args, cfg) ==
    /\ args.audio
    /\ args.by = "buildComplexArgs"
       => /\ Cardinality(AudioChains(args)) = Len(cfg.segments)
          /\ \A k \in ConcatNodes(args) : args.filterComplex[k].a = 1
          /\ Label("outa", 0) \in Labels(args.maps)

\* The input an audio sub-chain reads: the file at the index of its source.
AudioSource(args, k) ==
    IF args.filterComplex[k].src = "0:a" THEN args.inputs[1]
    ELSE IF args.filterComplex[k].src = "1:a" /\ Len(args.inputs) >= 2 THEN args.inputs[2]
    ELSE "none"

\* C30: processAudio is true exactly when an overlay audio file was supplied
\* or the probe detected an audio stream; the first attempt includes audio
\* exactly when processAudio is true; without processAudio every attempt is
\* video-only; and every audio sub-chain of every attempt reads the overlay
\* audio when one was supplied and the primary media otherwise.
C30_AudioDecision ==
    page.out.by = "process"
    => LET cfg == page.config
           out == page.out
       IN  /\ out.processAudio <=> (cfg.audioFile \/ out.hasInputAudio)
           /\ IF out.processAudio THEN WithAudio(out.attempts[1], cfg)
              ELSE \A k \in 1..Len(out.attempts) : VideoOnly(out.attempts[k])
           /\ \A k \in 2..Len(out.attempts) : VideoOnly(out.attempts[k])
           /\ \A k \in 1..Len(out.attempts) : \A c \in AudioChains(out.attempts[k]) :
                AudioSource(out.attempts[k], c) =
                  (IF cfg.audioFile THEN "input_audio" ELSE "input.mp4")

\* A job with an overlay audio on a primary media without audio, two segments:
\* the first attempt reads the overlay in both audio sub-chains, the retry is
\* video-only.
C30_Witness ==
    /\ page.out.by = "process"
    /\ page.config.audioFile /\ ~page.out.hasInputAudio
    /\ Len(page.config.segments) = 2
    /\ Len(page.out.attempts) = 2
    /\ Cardinality(AudioChains(page.out.attempts[1])) = 2
    /\ \A c \in AudioChains(page.out.attempts[1]) :
         page.out.attempts[1].filterComplex[c].src = "1:a"
    /\ VideoOnly(page.out.attempts[2])

\* The same decision as the jobs carry it: once a job encodes, processAudio
\* is what the overlay and the probe make it, the first encode includes audio
\* exactly then, and every later encode is without audio.
JobAudioDecision ==
    \A j \in JobIds :
      jobs[j].encodes # << >>
      => /\ jobs[j].processAudio
              = ShouldProcessAudio(jobs[j].cfg, jobs[j].hasInputAudio)
         /\ jobs[j].encodes[1] = jobs[j].processAudio
         /\ \A k \in 2..Len(jobs[j].encodes) : ~jobs[j].encodes[k]

\* The segments of the page reached the command preview or an encode.
Processed ==
    IF page.shown /\ page.out.by \in {"generateFFmpegCommand", "process"}
    THEN page.out.err = NoError ELSE FALSE

ValidTimes(seg) == isValidTimeString(seg.start) /\ isValidTimeString(seg.end)

\* C31: every segment whose times reach command generation or an encode has
\* valid time strings as start and end.
C31_OnlyValidTimesProcessed ==
    Processed => \A k \in 1..Len(page.config.segments) : ValidTimes(page.config.segments[k])

\* The cap of the log stream: 100 entries in the primary hook, 200 in the raw.
CapOf(h) == IF h = "primary" THEN 100 ELSE 200

\* logs holds the last entries appended since the log was cleared, in the
\* order they were appended.
MostRecent(logs, appended, cap) ==
    /\ Len(logs) = (IF Len(appended) <= cap THEN Len(appended) ELSE cap)
    /\ \A k \in 1..Len(logs) : logs[k] = appended[Len(appended) - Len(logs) + k]

\* C32: the log holds at most 100 (primary) or 200 (raw) entries, they are the
\* most recent ones appended since the log was cleared, in append order, and
\* the head of a job leaves the log with nothing but the job's first entry
\* (primary) or empty (raw).
C32_LogCappedAndOrdered ==
    [][ /\ Len(state'.logs) <= CapOf(hook)
        /\ MostRecent(state'.logs, devtools'.entries, CapOf(hook))
        /\ \A k \in 2..Len(state'.logs) :
             state'.logs[k - 1].timestamp < state'.logs[k].timestamp
        /\ (state'.logs # << >> /\ Len(state'.logs) <= Len(state.logs))
           => \/ /\ Len(state.logs) = CapOf(hook)
                 /\ Len(state'.logs) = CapOf(hook)
                 /\ state'.logs[1] = state.logs[2]
              \/ /\ hook = "primary"
                 /\ Len(state'.logs) = 1
                 /\ state'.logs[1].message = "Processing segment(s)..."
      ]_vars

\* The raw log is full with entries 6 to 205: the oldest five were dropped.
C32_Witness ==
    /\ hook = "raw"
    /\ Len(state.logs) = 200
    /\ Len(devtools.entries) = 205
    /\ state.logs[1].timestamp = 6
    /\ state.logs[200].timestamp = 205

\* The same head of a job as process() and execute() run it: the step that
\* starts a job leaves none of the earlier entries (the loader's "FFmpeg
\* ready" among them), and the primary job's first entry comes first.
JobStartClearsLogs ==
    [][Len(jobs') > Len(jobs)
       => /\ \A k \in 1..Len(state'.logs) : state'.logs[k] # "FFmpeg ready"
          /\ \E k \in 1..Len(state.logs) : state.logs[k] = "FFmpeg ready"
          /\ hook = "primary" => state'.logs[1] = "Processing segment(s)..."]_vars

----------------------------------------------------------------------------
(* Tokens of a raw command *)

Parsed == page.shown /\ page.out.by = "parseCommand"

\* The scanner's mode in front of character i of cmd
RECURSIVE ModeAt(_, _)
ModeAt(cmd, i) ==
    IF i = 1 THEN [single |-> FALSE, double |-> FALSE, escaped |-> FALSE]
    ELSE LET m == ModeAt(cmd, i - 1)
             c == cmd[i - 1]
         IN  IF m.escaped THEN [m EXCEPT !.escaped = FALSE]
             ELSE IF c = "\\" THEN [m EXCEPT !.escaped = TRUE]
             ELSE IF c = "'" /\ ~m.double THEN [m EXCEPT !.single = ~m.single]
             ELSE IF c = "\"" /\ ~m.single THEN [m EXCEPT !.double = ~m.double]
             ELSE m

\* White space inside a quoted span or preceded by a backslash
Shielded(cmd) ==
    { i \in 1..Len(cmd) : /\ cmd[i] \in SplitChars
                          /\ LET m == ModeAt(cmd, i)
                             IN  m.single \/ m.double \/ m.escaped }

\* White space outside quotes that no backslash precedes
Cuts(cmd) == { i \in 1..Len(cmd) : cmd[i] \in SplitChars /\ i \notin Shielded(cmd) }

\* The characters that are content: everything but separators, the quotes
\* that open or close a span and the backslashes that escape
IsContent(cmd, i) ==
    LET m == ModeAt(cmd, i)
    IN  \/ m.escaped
        \/ /\ cmd[i] # "\\"
           /\ ~(cmd[i] = "'" /\ ~m.double)
           /\ ~(cmd[i] = "\"" /\ ~m.single)
           /\ i \notin Cuts(cmd)

RECURSIVE ContentFrom(_, _)
ContentFrom(cmd, i) ==
    IF i > Len(cmd) THEN << >>
    ELSE (IF IsContent(cmd, i) THEN << cmd[i] >> ELSE << >>) \o ContentFrom(cmd, i + 1)

\* The tokens are the content of the command, cut at separators only.
SplitsOutsideQuotesOnly(cmd, args) ==
    /\ Flat(args) = ContentFrom(cmd, 1)
    /\ \A k \in 1..Len(args) : args[k] # << >>
    /\ Len(args) <= Cardinality(Cuts(cmd)) + 1

\* A command whose first word is the bare program name
LeadsWithProgram(command) ==
    LET cmd == trimWhite(command)
    IN  startsWith(cmd, ProgramName) /\ (Len(cmd) = 6 \/ cmd[7] \in SplitChars)

NonFlags(args) == SelectSeq(args, LAMBDA t : ~startsWith(t, << "-" >>))

\* C33: the command is split at white space outside quotes only (white space
\* inside a quoted span or behind a backslash stays in its token), a leading
\* program-name token is stripped, and the output file is the last token that
\* does not start with "-", the default output.mp4 only when there is none.
C33_Tokenization ==
    Parsed =>
      LET command == page.config
          args == page.out.parsed.args
          whole == scan(trimWhite(command), << >>, FALSE, FALSE, FALSE, << >>)
      IN  /\ SplitsOutsideQuotesOnly(stripProgram(command), args)
          /\ LeadsWithProgram(command) => args = Tail(whole)
          /\ page.out.parsed.outputFile =
               IF NonFlags(args) # << >> THEN NonFlags(args)[Len(NonFlags(args))]
               ELSE DefaultOutputFile

\* What parseCommand does about the tokens: all of the above but the output file.
TokensSplitAndStripped ==
    Parsed =>
      LET command == page.config
          args == page.out.parsed.args
          whole == scan(trimWhite(command), << >>, FALSE, FALSE, FALSE, << >>)
      IN  /\ SplitsOutsideQuotesOnly(stripProgram(command), args)
          /\ LeadsWithProgram(command) => args = Tail(whole)

\* What parseCommand does about the output file: only the last token counts.
OutputFileIsLastTokenOrDefault ==
    Parsed =>
      LET args == page.out.parsed.args
      IN  page.out.parsed.outputFile =
            IF args # << >> /\ Head(args[Len(args)]) # "-" THEN args[Len(args)]
            ELSE DefaultOutputFile

\* A command with shielded white space, parsed
ShieldedSeen == Parsed /\ Shielded(stripProgram(page.config)) # {}

----------------------------------------------------------------------------
(* The load state the hook reports against the engine it holds *)

ReadyMeansLoaded ==
    state.loadPhase = "ready"
      => /\ state.loadProgress = 100
         /\ ~state.isLoading
         /\ ffmpegRef # 0 /\ engines[ffmpegRef].loaded

FetchPhasesMeanLoading ==
    state.loadPhase \in {"core", "wasm", "worker"} => state.isLoading

\* C34: whenever loadPhase is ready (loadProgress 100, isLoading false) the
\* engine instance the hook holds is loaded, and whenever loadPhase is core,
\* wasm or worker, isLoading is true, for every interleaving of load() calls
\* and of their completions or failures.
C34_LoadStateConsistent ==
    hook = "primary" => (ReadyMeansLoaded /\ FetchPhasesMeanLoading)

\* The same with one load() in flight at a time.
LoadStateConsistentOneAtATime == ReadyMeansLoaded /\ FetchPhasesMeanLoading

\* The two halves of C34, each on its own
ReadyIsLoadedPrimary == hook = "primary" => ReadyMeansLoaded

FetchPhasesLoadingPrimary == hook = "primary" => FetchPhasesMeanLoading

----------------------------------------------------------------------------
(* The probe's log listener *)

\* The jobs on engine instance e that have not concluded
JobsRunningOn(e) == {j \in JobIds : jobs[j].inst = e /\ ~Done(j)}

\* C35: the log listener a primary job registers for the metadata probe does
\* not outlive the job: an engine instance has no more probe listeners than
\* jobs running on it, none once its jobs have concluded, however many ran.
C35_ProbeListenerEndsWithJob ==
    hook = "primary"
      => \A e \in 1..Len(engines) :
           engines[e].listeners <= Cardinality(JobsRunningOn(e))

\* What the code does: every probe leaves one more listener on the instance.
ProbeListenersOnlyGrow ==
    [][\A e \in 1..Len(engines) : engines'[e].listeners >= engines[e].listeners]_vars

\* Concluded jobs leave at most one listener behind; two successive jobs on one
\* instance refute it, each having left its own.
AtMostOneLeftoverListener ==
    \A e \in 1..Len(engines) :
      ~(engines[e].listeners >= 2 /\ JobsRunningOn(e) = {})

----------------------------------------------------------------------------
(* The timer of the raw job after the race *)

\* The timer of job j fires in this step, the race of j being decided already.
FiresLate(j) ==
    /\ jobs[j].pc # "exec"
    /\ jobs[j].timer = "pending"
    /\ jobs'[j].timer = "fired"

\* C36: the timer of a raw job is never cancelled (once pending it stays
\* pending until it fires), and a timer that fires after the job's engine call
\* has resolved has no effect: isProcessing, error, outputUrl, outputType and
\* the rest of the hook state, the engine and every job, this one and later
\* ones, are as before.
C36_LateTimerHasNoEffect ==
    [][hook = "raw"
       => \A j \in JobIds :
            /\ jobs[j].timer = "pending" => jobs'[j].timer \in {"pending", "fired"}
            /\ jobs[j].timer = "fired" => jobs'[j].timer = "fired"
            /\ FiresLate(j)
                 => /\ state' = state
                    /\ engines' = engines
                    /\ ffmpegRef' = ffmpegRef
                    /\ jobs' = [jobs EXCEPT ![j].timer = "fired"]]_vars

\* The timer of a job that published its output has fired since.
C36_Witness ==
    /\ hook = "raw"
    /\ \E j \in JobIds :
         /\ jobs[j].success /\ Done(j)
         /\ jobs[j].timer = "fired"
         /\ jobs[j].caught = NoError
         /\ state.outputUrl # NoUrl /\ state.error = NoError /\ ~state.isProcessing

\* A later job is running while the timer of an earlier, concluded job is
\* still pending.
LaterJobWithEarlierTimerPending ==
    /\ hook = "raw"
    /\ \E j, k \in JobIds :
         /\ j < k /\ Done(j) /\ jobs[j].timer = "pending"
         /\ ~Done(k)

----------------------------------------------------------------------------
(* reset() and what it leaves alone *)

IsReady == ffmpegRef # 0 /\ engines[ffmpegRef].loaded

\* C37: reset() clears only the job outcome (isProcessing, progress, error,
\* outputUrl, and outputType in the raw hook) and revokes the output URL that
\* was shown, and only that one; loadPhase, loadProgress, isLoading,
\* isMultiThreaded, the log entries, the engine instance and its files, the
\* loads and the jobs are unchanged, so an engine that was ready is still ready.
C37_ResetClearsOnlyTheOutcome ==
    [][nResets' = nResets + 1
       => /\ state' = [state EXCEPT !.isProcessing = FALSE, !.progress = 0,
                                    !.error = NoError, !.outputUrl = NoUrl,
                                    !.outputType = IF hook = "raw" THEN "null" ELSE @]
          /\ ~state'.isProcessing /\ state'.progress = 0 /\ state'.error = NoError
          /\ state'.outputUrl = NoUrl
          /\ state'.logs = state.logs
          /\ state'.loadPhase = state.loadPhase /\ state'.loadProgress = state.loadProgress
          /\ state'.isLoading = state.isLoading
          /\ state'.isMultiThreaded = state.isMultiThreaded
          /\ UNCHANGED <<ffmpegRef, engines, loads, jobs>>
          /\ IsReady => IsReady'
          /\ devtools.open
               => devtools'.revoked = devtools.revoked \cup {state.outputUrl}]_vars

\* A ready engine with logs, reset after an output was shown: its URL is
\* revoked, nothing is shown, and the engine is still ready.
C37_Witness ==
    /\ nResets >= 1
    /\ devtools.open /\ devtools.revoked # {}
    /\ state.outputUrl = NoUrl /\ ~state.isProcessing /\ state.progress = 0
    /\ state.loadPhase = "ready" /\ state.loadProgress = 100
    /\ state.logs # << >>
    /\ IsReady

\* Every object URL that is no longer shown has been revoked.
NoUrlLeftUnrevoked ==
    devtools.open
      => \A j \in JobIds :
           (Done(j) /\ jobs[j].success /\ state.outputUrl = NoUrl) => j \in devtools.revoked

----------------------------------------------------------------------------
(* Stream labels of a filter graph *)

SubChains(g) == {k \in 1..Len(g) : g[k].node \in {"trim", "atrim"}}

\* The sub-chains of graph g that define label l
DefinedBy(g, l) == {k \in SubChains(g) : l \in Labels(g[k].out)}

\* The input pads of concat node c that consume label l
ConsumedAt(c, l) == {p \in 1..Len(c.ins) : c.ins[p] = l}

\* A graph with n segments: one concat node; [v_i] for every segment, and
\* [a_i] too when the concat declares a=1, each defined by exactly one
\* sub-chain and consumed exactly once; no other label defined or consumed;
\* the two sub-chains of a segment agree on trim bounds and fades.
WellLabelled(g, n) ==
    /\ Cardinality(Concats(g)) = 1
    /\ LET c == g[CHOOSE k \in Concats(g) : TRUE]
           kinds == IF c.a = 1 THEN {"v", "a"} ELSE {"v"}
           wanted == {Label(kind, i) : kind \in kinds, i \in 0..(n - 1)}
       IN  /\ c.a \in {0, 1}
           /\ \A l \in wanted : /\ Cardinality(DefinedBy(g, l)) = 1
                                 /\ Cardinality(ConsumedAt(c, l)) = 1
           /\ \A k \in SubChains(g) : Len(g[k].out) = 1 /\ g[k].out[1] \in wanted
           /\ Labels(c.ins) = wanted
           /\ Cardinality(SubChains(g)) = Cardinality(wanted)
           /\ Len(c.ins) = Cardinality(wanted)
           /\ c.a = 1
                => \A i \in 0..(n - 1) :
                     LET v == g[CHOOSE k \in DefinedBy(g, Label("v", i)) : TRUE]
                         a == g[CHOOSE k \in DefinedBy(g, Label("a", i)) : TRUE]
                     IN  /\ v.node = "trim" /\ a.node = "atrim"
                         /\ v.start = a.start /\ v.end = a.end
                         /\ v.fades = a.fades

Synthesised ==
    /\ page.shown
    /\ page.out.by \in {"buildSimpleArgs", "buildComplexArgs", "generateFFmpegCommand"}

\* C38: every argument vector built for an encode is well-formed in its stream
\* labels: each [v_i], and [a_i] when audio is produced, is defined by exactly
\* one sub-chain and consumed exactly once by the concat node; the video and
\* audio sub-chains of a segment carry the same trim bounds and the same fade
\* decisions; and -map [outa] is present iff the concat node declares a=1.
C38_LabelsWellFormed ==
    Synthesised
      => LET g == page.out.filterComplex
         IN  /\ g # << >> => WellLabelled(g, Len(page.config.segments))
             /\ page.out.by \in {"buildComplexArgs", "generateFFmpegCommand"}
                  => (g # << >> \/ page.out.maps = << >>)
             /\ Label("outa", 0) \in Labels(page.out.maps)
                  <=> \E k \in Concats(g) : g[k].a = 1

\* An encode of three segments with audio, the first fading in.
C38_Witness ==
    /\ Synthesised
    /\ page.out.by = "buildComplexArgs" /\ page.out.audio
    /\ Len(page.config.segments) = 3
    /\ Cardinality(SubChains(page.out.filterComplex)) = 6
    /\ \E k \in SubChains(page.out.filterComplex) :
         /\ page.out.filterComplex[k].node = "atrim"
         /\ page.out.filterComplex[k].fades # << >>
    /\ Label("outa", 0) \in Labels(page.out.maps)

\* A video-only encode: no [a_i], a=0, [outa] not mapped.
VideoOnlyGraphBuilt ==
    /\ Synthesised
    /\ page.out.by = "buildComplexArgs" /\ ~page.out.audio
    /\ \E k \in Concats(page.out.filterComplex) : page.out.filterComplex[k].a = 0
    /\ Label("outa", 0) \notin Labels(page.out.maps)

----------------------------------------------------------------------------
(* The bulk editor applied unchanged *)

\* C39: opening the bulk editor and applying it without changing the text
\* leaves the segment list as it was, ids apart: the same (start, end) pairs
\* in the same order with the same fade flags, for every list the editor can
\* hold.
C39_UnchangedBulkEditIsIdentity ==
    (page.shown /\ page.out.by = "handleSave") => page.out.segments = page.out.before

\* The same for lists of distinct ranges whose times the bulk pattern matches
\* whole (one or two digits, a colon, two digits, optionally a colon and two
\* more): what the code does guarantee.
MatchedWhole(t) ==
    LET m == Match(t \o << "-" >> \o t) IN m # << >> /\ m[1] = t /\ m[2] = t

DistinctRanges(segments) ==
    \A i, k \in 1..Len(segments) :
      (segments[i].start = segments[k].start /\ segments[i].end = segments[k].end) => i = k

UnchangedBulkEditKeepsMatchedLists ==
    (page.shown /\ page.out.by = "handleSave"
       /\ DistinctRanges(page.out.before)
       /\ \A i \in 1..Len(page.out.before) :
            MatchedWhole(page.out.before[i].start) /\ MatchedWhole(page.out.before[i].end))
    => page.out.segments = page.out.before

\* A list of two distinct matched ranges with fade flags went through unchanged.
MatchedListKept ==
    /\ page.shown /\ page.out.by = "handleSave"
    /\ Len(page.out.before) = 2 /\ DistinctRanges(page.out.before)
    /\ page.out.before[2].fadeIn
    /\ page.out.segments = page.out.before

\* The same for segments created by Add and never edited: two of them, the
\* second toggled to fade in, do not come back as they were.
AddedSegmentsComeBackUnchanged ==
    (page.shown /\ page.out.by = "handleSave"
       /\ \A i \in 1..Len(page.out.before) :
            page.out.before[i].start = T000 /\ page.out.before[i].end = T000)
    => page.out.segments = page.out.before

====
